---- MODULE Spec2Model ----
(***************************************************************************)
(* A model of the RichText element of leafer-x-richText: the text, the    *)
(* per-character style store keyed by (line, column), the line breaker,   *)
(* the coordinate mapper, the edit engine with its undo/redo snapshots,   *)
(* the hidden input proxy and the EditingManager singleton.               *)
(*                                                                         *)
(* Every RichText instance is a record; every method of the class is an   *)
(* operator from the record before the call to the record after it.       *)
(* Strings are sequences of UTF-16 code units, graphemes are the           *)
(* sequences of code units graphemeSplit groups together.  A JS object     *)
(* holding a character style is a sequence of <<key, value>> pairs in      *)
(* insertion order.  A JS Map is a function with a finite domain; the     *)
(* inner Maps of the style store live on a heap so that two holders of    *)
(* one Map see each other's writes.                                        *)
(***************************************************************************)
EXTENDS Integers, Sequences, FiniteSets, TLC

VARIABLES
  rt,            \* Inst -> the fields of each RichText instance
  activeEditor,  \* EditingManager.activeEditor: an instance, or NoEditor
  last           \* the call that produced this state: its name, target, arguments
                 \* and the active editor before the call

vars == <<rt, activeEditor, last>>

----------------------------------------------------------------------------
(* Bounds of the model                                                     *)

NumInst == 2        \* RichText instances sharing the canvas
MaxLen == 3         \* longest text, in code units
MaxUndo == 2        \* deepest undo stack the model records
MaxBlinks == 2      \* caret-blink loops one instance starts
OpacitySteps == 2   \* steps of cursorBlinkSpeed between opacity 0 and opacity 1

Inst == 1..NumInst
NoEditor == 0

----------------------------------------------------------------------------
(* Generic helpers                                                         *)

Min(a, b) == IF a < b THEN a ELSE b
Max(a, b) == IF a > b THEN a ELSE b

EmptyMap == << >>
MapSet(m, k, v) == [x \in (DOMAIN m) \cup {k} |-> IF x = k THEN v ELSE m[x]]
MapDel(m, k) == [x \in (DOMAIN m) \ {k} |-> m[x]]

RECURSIVE SortedSeq(_)
SortedSeq(S) ==
  IF S = {} THEN << >>
  ELSE LET m == CHOOSE x \in S : \A y \in S : x <= y
       IN <<m>> \o SortedSeq(S \ {m})

Some(x) == <<x>>
None == << >>

----------------------------------------------------------------------------
(* Character styles: JS objects as ordered <<key, value>> sequences        *)

Keys(s) == {s[i][1] : i \in 1..Len(s)}
Has(s, k) == k \in Keys(s)
Get(s, k) == s[CHOOSE i \in 1..Len(s) : s[i][1] = k][2]

\* { ...a, ...b }
Spread(a, b) ==
  [i \in 1..Len(a) |-> IF Has(b, a[i][1]) THEN <<a[i][1], Get(b, a[i][1])>> ELSE a[i]]
    \o SelectSeq(b, LAMBDA p : ~Has(a, p[1]))

----------------------------------------------------------------------------
(* Program constants                                                       *)

DefaultFontSize == 16
LineHeightNum == 3      \* lineHeight 1.5 = 3 / 2
LineHeightDen == 2
MinWrapWidth == 20
BigFontSize == 32
DefaultBoxWidth == 100

DefaultFill == "#000000"

NL == <<"\n">>

----------------------------------------------------------------------------
(* utils.ts                                                                *)

\* Intl.Segmenter keeps a surrogate pair (here "H" then "L") in one grapheme
RECURSIVE graphemeSplit(_)
graphemeSplit(text) ==
  IF Len(text) = 0 THEN << >>
  ELSE IF Len(text) >= 2 /\ text[1] = "H" /\ text[2] = "L"
       THEN << <<"H", "L">> >> \o graphemeSplit(SubSeq(text, 3, Len(text)))
       ELSE << <<text[1]>> >> \o graphemeSplit(SubSeq(text, 2, Len(text)))

RECURSIVE Join(_)
Join(gs) == IF Len(gs) = 0 THEN << >> ELSE Head(gs) \o Join(Tail(gs))

\* the canvas measures every grapheme as wide as its font size
measureTextWidth(char, fontSize) == fontSize

\* RE_WORD_BOUNDARY.test(char)
IsWordBoundary(char) == \E k \in 1..Len(char) : char[k] \in {" ", "\n"}

----------------------------------------------------------------------------
(* Line breaking.  A line holds, for each of its characters, the index of  *)
(* that character in _graphemes (0-based) in place of the character.       *)

_parsePadding(padding) == [top |-> padding, right |-> padding, bottom |-> padding, left |-> padding]

RECURSIVE SplitNL(_, _, _, _)
SplitNL(g, i, lines, currentLine) ==
  IF i > Len(g) THEN Append(lines, currentLine)
  ELSE IF g[i] = NL THEN SplitNL(g, i + 1, Append(lines, currentLine), << >>)
  ELSE SplitNL(g, i + 1, lines, Append(currentLine, i - 1))

_splitLinesByNewline(r) == SplitNL(r.graphemes, 1, << >>, << >>)

_getStyleAtLinearIndex(r, linearIndex) ==
  IF r.pendingLinearStyles # None /\ linearIndex \in DOMAIN r.pendingLinearStyles[1]
  THEN Some(r.pendingLinearStyles[1][linearIndex])
  ELSE None

\* style?.fontSize || this.fontSize
FontSizeOr(r, style) ==
  IF style # None /\ Has(style[1], "fontSize") /\ Get(style[1], "fontSize") # 0
  THEN Get(style[1], "fontSize") ELSE r.fontSize

_estimateCharWidthWithStyle(r, char, style) ==
  measureTextWidth(char, FontSizeOr(r, style)) + r.letterSpacing

\* index (0-based) of the last word boundary of the line, or -1
_findLastSpace(r, line) ==
  LET S == {i \in 1..Len(line) : IsWordBoundary(r.graphemes[line[i] + 1])}
  IN IF S = {} THEN -1 ELSE (CHOOSE i \in S : \A j \in S : j <= i) - 1

RECURSIVE AfterSpaceWidth(_, _, _, _)
AfterSpaceWidth(r, afterSpace, lin, j) ==
  IF j >= Len(afterSpace) THEN 0
  ELSE _estimateCharWidthWithStyle(r, r.graphemes[afterSpace[j + 1] + 1],
          _getStyleAtLinearIndex(r, lin - Len(afterSpace) + j))
       + AfterSpaceWidth(r, afterSpace, lin, j + 1)

RECURSIVE WrapPara(_, _, _, _, _, _)
WrapPara(r, para, i, maxWidth, indent, st) ==
  IF i > Len(para) THEN st
  ELSE
    LET char == para[i]
        charWidth == measureTextWidth(r.graphemes[char + 1],
                        FontSizeOr(r, _getStyleAtLinearIndex(r, st.lin)))
        forced == [lines |-> Append(st.lines, st.cur), cur |-> <<char>>,
                   w |-> charWidth + r.letterSpacing, lin |-> st.lin + 1]
        lastSpaceIdx == _findLastSpace(r, st.cur)
        beforeSpace == SubSeq(st.cur, 1, lastSpaceIdx)
        afterSpace == SubSeq(st.cur, lastSpaceIdx + 2, Len(st.cur))
        next ==
          IF st.w + charWidth > maxWidth - indent /\ Len(st.cur) > 0
          THEN IF r.textWrap = "break" THEN forced
               ELSE IF lastSpaceIdx >= 0
                    THEN [lines |-> Append(st.lines, beforeSpace),
                          cur |-> afterSpace \o <<char>>,
                          w |-> charWidth + r.letterSpacing
                                  + AfterSpaceWidth(r, afterSpace, st.lin, 0),
                          lin |-> st.lin + 1]
                    ELSE forced
          ELSE [lines |-> st.lines, cur |-> Append(st.cur, char),
                w |-> st.w + charWidth + r.letterSpacing, lin |-> st.lin + 1]
    IN WrapPara(r, para, i + 1, maxWidth, indent, next)

RECURSIVE WrapParas(_, _, _, _, _)
WrapParas(r, paragraphs, paraIdx, maxWidth, st) ==
  IF paraIdx > Len(paragraphs) THEN st.lines
  ELSE
    LET para == paragraphs[paraIdx]
        indent == IF paraIdx = 1 \/ Len(paragraphs[paraIdx - 1]) = 0
                  THEN r.paraIndent ELSE 0
        res == WrapPara(r, para, 1, maxWidth, indent,
                  [lines |-> st.lines, cur |-> << >>, w |-> 0, lin |-> st.lin])
    IN IF Len(para) = 0
       THEN WrapParas(r, paragraphs, paraIdx + 1, maxWidth,
                [lines |-> Append(st.lines, << >>), lin |-> st.lin + 1])
       ELSE WrapParas(r, paragraphs, paraIdx + 1, maxWidth,
                [lines |-> IF Len(res.cur) > 0 THEN Append(res.lines, res.cur)
                                               ELSE res.lines,
                 lin |-> res.lin + 1])

Abs(x) == IF x < 0 THEN -x ELSE x

_splitLinesWithWrap(r) ==
  LET padding == _parsePadding(r.padding)
      maxWidth == Abs(r.width) - padding.left - padding.right
      Wrapped(paragraphs) ==
        LET NonEmpty(lines) == IF Len(lines) > 0 THEN lines ELSE << << >> >>
        IN NonEmpty(WrapParas(r, paragraphs, 1, maxWidth, [lines |-> << >>, lin |-> 0]))
      Result(paragraphs) ==
        IF maxWidth <= MinWrapWidth THEN paragraphs ELSE Wrapped(paragraphs)
  IN Result(_splitLinesByNewline(r))

_splitLines(r) ==
  IF Len(r.graphemes) = 0 THEN << << >> >>
  ELSE IF r.autoWidth \/ r.textWrap = "none" \/ r.width <= 0
       THEN _splitLinesByNewline(r)
       ELSE _splitLinesWithWrap(r)

----------------------------------------------------------------------------
(* Coordinate mapper                                                       *)

RECURSIVE LinToLoc(_, _, _, _)
LinToLoc(lines, index, lineIndex, charCount) ==
  IF lineIndex >= Len(lines)
  THEN [lineIndex |-> Len(lines) - 1, charIndex |-> Len(lines[Len(lines)])]
  ELSE IF index <= charCount + Len(lines[lineIndex + 1])
       THEN [lineIndex |-> lineIndex, charIndex |-> index - charCount]
       ELSE LinToLoc(lines, index, lineIndex + 1, charCount + Len(lines[lineIndex + 1]) + 1)

_linearToLocation(r, index) ==
  IF Len(r.lines) = 0 THEN [lineIndex |-> 0, charIndex |-> 0]
  ELSE LinToLoc(r.lines, index, 0, 0)

RECURSIVE LocToLin(_, _, _)
LocToLin(lines, lineIndex, i) ==
  IF i < lineIndex /\ i < Len(lines)
  THEN Len(lines[i + 1]) + 1 + LocToLin(lines, lineIndex, i + 1)
  ELSE 0

\* _locationToLinear without the + 1 that is counted for the end of a line
LocationToLinearNoLineEnd(r, lineIndex, charIndex) ==
  LocToLin(r.lines, lineIndex, 0) - Min(lineIndex, Len(r.lines)) + charIndex

_locationToLinear(r, lineIndex, charIndex) == LocToLin(r.lines, lineIndex, 0) + charIndex

----------------------------------------------------------------------------
(* The style store: _styles maps a line to an inner Map (a heap reference) *)
(* and the inner Map maps a column to a character style.                   *)

StyleFields == {"fill", "fontSize"}

HasLine(r, styles, lineIndex) == lineIndex \in DOMAIN styles
LineStyles(r, styles, lineIndex) == r.heap[styles[lineIndex]]

\* the override stored at (lineIdx, charIdx) in a style Map, {} when none
CellOf(r, styles, lineIdx, charIdx) ==
  IF lineIdx \in DOMAIN styles /\ charIdx \in DOMAIN r.heap[styles[lineIdx]]
  THEN r.heap[styles[lineIdx]][charIdx] ELSE << >>

HasCell(r, styles, lineIdx, charIdx) ==
  lineIdx \in DOMAIN styles /\ charIdx \in DOMAIN r.heap[styles[lineIdx]]

StyledCells(r, styles) ==
  UNION {{<<l, c>> : c \in DOMAIN r.heap[styles[l]]} : l \in DOMAIN styles}

NextRef(r) == IF DOMAIN r.heap = {} THEN 1
              ELSE (CHOOSE x \in DOMAIN r.heap : \A y \in DOMAIN r.heap : y <= x) + 1

\* this._styles.get(line).set(col, style), creating the inner Map when missing
SetCell(r, lineIndex, charIndex, style) ==
  IF lineIndex \in DOMAIN r.styles
  THEN [r EXCEPT !.heap[r.styles[lineIndex]] = MapSet(@, charIndex, style)]
  ELSE [r EXCEPT !.styles = MapSet(@, lineIndex, NextRef(r)),
                 !.heap = MapSet(@, NextRef(r), MapSet(EmptyMap, charIndex, style))]

\* this._styles.get(line)?.delete(col)
DeleteCell(r, lineIndex, charIndex) ==
  IF lineIndex \in DOMAIN r.styles
  THEN [r EXCEPT !.heap[r.styles[lineIndex]] = MapDel(@, charIndex)]
  ELSE r

_getCharStyle(r, lineIdx, charIdx) ==
  LET charStyle == CellOf(r, r.styles, lineIdx, charIdx)
      base == [fill |-> r.fill, fontSize |-> r.fontSize]
  IN [k \in StyleFields |-> IF Has(charStyle, k) THEN Get(charStyle, k) ELSE base[k]]

\* Cells are visited by ascending line and column; a later cell that maps to
\* the same linear index overwrites an earlier one.
CellLess(a, b) == a[1] < b[1] \/ (a[1] = b[1] /\ a[2] < b[2])

_convertStylesToLinear(r) ==
  LET cells == StyledCells(r, r.styles)
      lin(x) == _locationToLinear(r, x[1], x[2])
      lastOf(n) == CHOOSE x \in cells : lin(x) = n /\
                      \A y \in cells : lin(y) = n => (y = x \/ CellLess(y, x))
  IN [n \in {lin(x) : x \in cells} |->
        LET x == lastOf(n) IN r.heap[r.styles[x[1]]][x[2]]]

\* Linear indices are visited in ascending order; new inner Maps are made.
_applyPendingStyles(r) ==
  IF r.pendingLinearStyles = None THEN r
  ELSE
    LET pending == r.pendingLinearStyles[1]
        loc(n) == _linearToLocation(r, n)
        lineSet == {loc(n).lineIndex : n \in DOMAIN pending}
        colsOf(l) == {loc(n).charIndex : n \in {m \in DOMAIN pending : loc(m).lineIndex = l}}
        lastAt(l, c) == CHOOSE n \in DOMAIN pending :
                           loc(n) = [lineIndex |-> l, charIndex |-> c] /\
                           \A m \in DOMAIN pending :
                              loc(m) = [lineIndex |-> l, charIndex |-> c] => m <= n
        base == NextRef(r)
    IN [r EXCEPT !.styles = [l \in lineSet |-> base + l],
                 !.heap = [k \in (DOMAIN r.heap) \cup {base + l : l \in lineSet} |->
                             IF k \in DOMAIN r.heap THEN r.heap[k]
                             ELSE [c \in colsOf(k - base) |-> pending[lastAt(k - base, c)]]],
                 !.pendingLinearStyles = None]

\* _updateGraphemes up to the call of _splitLines: the graphemes of the text
\* and the overrides in linear form
BeforeSplit(r) ==
  LET oldGraphemes == r.graphemes
      r1 == [r EXCEPT !.graphemes = graphemeSplit(r.text)]
      hadStyles == DOMAIN r.styles # {}
  IN IF hadStyles /\ r1.pendingLinearStyles = None
     THEN [r1 EXCEPT !.pendingLinearStyles = Some(_convertStylesToLinear(r1))]
     ELSE r1

_updateGraphemes(r) ==
  LET r2 == BeforeSplit(r)
      r3 == [r2 EXCEPT !.lines = _splitLines(r2)]
  IN _applyPendingStyles(r3)

----------------------------------------------------------------------------
(* Metrics                                                                 *)

RECURSIVE MeasureChars(_, _, _, _)
MeasureChars(r, lineIdx, charIdx, x) ==
  IF charIdx >= Len(r.lines[lineIdx + 1]) THEN << >>
  ELSE LET style == _getCharStyle(r, lineIdx, charIdx)
           width == measureTextWidth(r.graphemes[r.lines[lineIdx + 1][charIdx + 1] + 1],
                                     style.fontSize)
       IN <<[x |-> x, width |-> width, fontSize |-> style.fontSize]>>
            \o MeasureChars(r, lineIdx, charIdx + 1, x + width + r.letterSpacing)

MaxOf(S) == CHOOSE x \in S : \A y \in S : y <= x

_parseLineHeight(fontSize) == (fontSize * LineHeightNum) \div LineHeightDen

RECURSIVE MeasureLines(_, _, _)
MeasureLines(r, lineIdx, y) ==
  IF lineIdx >= Len(r.lines) THEN << >>
  ELSE LET x0 == IF lineIdx = 0 \/ Len(r.lines[lineIdx]) = 0 THEN r.paraIndent ELSE 0
           chars == MeasureChars(r, lineIdx, 0, x0)
           maxFontSize == IF Len(chars) > 0
                          THEN MaxOf({chars[i].fontSize : i \in 1..Len(chars)})
                          ELSE r.fontSize
           lineHeightValue == _parseLineHeight(maxFontSize)
           spacing == IF Len(r.lines[lineIdx + 1]) = 0 /\ lineIdx < Len(r.lines) - 1
                      THEN r.paraSpacing ELSE 0
       IN <<[chars |-> chars, y |-> y, height |-> lineHeightValue]>>
            \o MeasureLines(r, lineIdx + 1, y + lineHeightValue + spacing)

\* the quotients are those of the code where the leftover width is a multiple
\* of the divisor, which it is for the widths and the line lengths drawn here
_getAlignOffsetAndSpacing(r, line, lineIdx) ==
  IF Len(line.chars) = 0 THEN [alignOffset |-> 0, extraSpacing |-> 0]
  ELSE
    LET lastChar == line.chars[Len(line.chars)]
        lineWidth == lastChar.x + lastChar.width + r.letterSpacing
        padding == _parsePadding(r.padding)
        containerWidth == IF r.autoWidth THEN lineWidth
                          ELSE (IF Abs(r.width) # 0 THEN Abs(r.width) ELSE lineWidth)
                                 - padding.left - padding.right
        gap == containerWidth - lineWidth
        none == [alignOffset |-> 0, extraSpacing |-> 0]
    IN CASE r.textAlign = "center" -> [alignOffset |-> gap \div 2, extraSpacing |-> 0]
         [] r.textAlign = "right" -> [alignOffset |-> gap, extraSpacing |-> 0]
         [] r.textAlign \in {"justify", "justify-letter"} ->
              IF lineIdx < Len(r.lines) - 1 /\ Len(line.chars) > 1 /\ gap > 0
              THEN [alignOffset |-> 0, extraSpacing |-> gap \div (Len(line.chars) - 1)]
              ELSE none
         [] r.textAlign \in {"both", "both-letter"} ->
              IF Len(line.chars) > 1 /\ gap > 0
              THEN [alignOffset |-> 0, extraSpacing |-> gap \div (Len(line.chars) - 1)]
              ELSE none
         [] OTHER -> none

\* the textAlign values whose case of the switch can move a character
MovingAligns == {"center", "right", "justify", "justify-letter", "both", "both-letter"}

\* the measured lines of r with the characters moved to their aligned places
_applyTextAlignToMetrics(r, lineMetrics) ==
  LET padding == _parsePadding(r.padding)
      containerWidth == IF r.autoWidth THEN 0
                        ELSE r.width - padding.left - padding.right
      moved(line, lineIdx) ==
        LET a == _getAlignOffsetAndSpacing(r, line, lineIdx)
        IN [line EXCEPT !.chars =
              [c \in 1..Len(line.chars) |->
                 [line.chars[c] EXCEPT !.x = @ + a.alignOffset + (c - 1) * a.extraSpacing]]]
  IN IF r.textAlign \notin MovingAligns \/ containerWidth <= 0 THEN lineMetrics
     ELSE [l \in 1..Len(lineMetrics) |-> moved(lineMetrics[l], l - 1)]

_measureText(r) ==
  [r EXCEPT !.lineMetrics = _applyTextAlignToMetrics(r, MeasureLines(r, 0, 0))]

_pointerToIndex(r, x, y) ==
  IF Len(r.lineMetrics) = 0 THEN 0
  ELSE
    LET padding == _parsePadding(r.padding)
        adjustedX == x - padding.left
        adjustedY == y - padding.top
        n == Len(r.lineMetrics)
        inBand == {i \in 0..(n - 1) :
                     adjustedY >= r.lineMetrics[i + 1].y /\
                     adjustedY < r.lineMetrics[i + 1].y + r.lineMetrics[i + 1].height}
        below == {i \in 0..(n - 1) :
                     adjustedY >= r.lineMetrics[i + 1].y + r.lineMetrics[i + 1].height}
        lineIndex == IF inBand # {} THEN CHOOSE i \in inBand : \A j \in inBand : i <= j
                     ELSE IF below # {} THEN MaxOf(below) ELSE 0
        line == r.lineMetrics[lineIndex + 1]
        left == {i \in 0..(Len(line.chars) - 1) :
                   2 * adjustedX < 2 * line.chars[i + 1].x + line.chars[i + 1].width}
        charIndex == IF left # {} THEN CHOOSE i \in left : \A j \in left : i <= j
                     ELSE Len(line.chars)
    IN _locationToLinear(r, lineIndex, charIndex)

RECURSIVE SumHeights(_, _)
SumHeights(lineMetrics, l) ==
  IF l > Len(lineMetrics) THEN 0 ELSE lineMetrics[l].height + SumHeights(lineMetrics, l + 1)

\* the width and the height of the text box; x || d is d when x is 0
_getTextBounds(r) ==
  LET padding == _parsePadding(r.padding)
      LineWidth(line) ==
        IF Len(line.chars) = 0 THEN 0
        ELSE line.chars[Len(line.chars)].x + line.chars[Len(line.chars)].width
               + r.letterSpacing
      contentWidth ==
        MaxOf({0} \cup {LineWidth(r.lineMetrics[l]) : l \in 1..Len(r.lineMetrics)})
      finalWidth == IF r.autoWidth THEN contentWidth
                    ELSE Max(contentWidth, Abs(r.width))
      OrDefault(x) == IF x = 0 THEN DefaultBoxWidth ELSE x
      totalHeight == SumHeights(r.lineMetrics, 1)
      baseHeight == _parseLineHeight(r.fontSize)
      OrBase(x) == IF x = 0 THEN baseHeight ELSE x
  IN IF Len(r.lineMetrics) = 0
     THEN [width |-> (IF r.autoWidth \/ r.width = 0 THEN DefaultBoxWidth ELSE Abs(r.width))
                       + padding.left + padding.right,
           height |-> baseHeight + padding.top + padding.bottom]
     ELSE [width |-> OrDefault(finalWidth + padding.left + padding.right),
           height |-> OrBase(totalHeight + padding.top + padding.bottom)]

\* the layout pass of the host: __updateBoxBounds runs when boxChanged is set;
\* with autoWidth the computed width is written back to the width property
__updateBoxBounds(r) ==
  LET Bound(r2, computed) ==
        [r2 EXCEPT !.boxChanged = FALSE,
                   !.width = IF r2.autoWidth /\ computed.width > 0 THEN computed.width ELSE @]
      Measured(r2) == Bound(r2, _getTextBounds(r2))
  IN Measured(_measureText(_updateGraphemes(r)))

\* forceUpdate() / a write to a @boundsType property: the box is laid out
\* again by the next layout pass
forceUpdate(r) == [r EXCEPT !.boxChanged = TRUE]

----------------------------------------------------------------------------
(* The hidden textarea (the input proxy).  Its value is a string of code   *)
(* units and its selection is the browser's, in code units.                *)

SliceTo(s, n) == SubSeq(s, 1, Min(Max(n, 0), Len(s)))
SliceFrom(s, n) == SubSeq(s, Min(Max(n, 0), Len(s)) + 1, Len(s))

\* textarea.selectionStart = s; textarea.selectionEnd = e  (the DOM clamps both
\* to the length of the value and never leaves start after end)
TaSelect(ta, s, e) ==
  LET end == Min(Max(e, 0), Len(ta.value))
      start == Min(Min(Max(s, 0), Len(ta.value)), end)
  IN [ta EXCEPT !.selectionStart = start, !.selectionEnd = end]

_createHiddenTextarea(r) ==
  IF r.hiddenTextarea # None THEN r
  ELSE [r EXCEPT !.hiddenTextarea =
          Some(TaSelect([value |-> r.text, selectionStart |-> 0, selectionEnd |-> 0],
                        r.selectionStart, r.selectionEnd))]

_destroyHiddenTextarea(r) == [r EXCEPT !.hiddenTextarea = None]

_updateTextarea(r) ==
  IF r.hiddenTextarea = None \/ r.inComposition THEN r
  ELSE [r EXCEPT !.hiddenTextarea =
          Some(TaSelect(r.hiddenTextarea[1], r.selectionStart, r.selectionEnd))]

----------------------------------------------------------------------------
(* Undo / redo                                                             *)

\* new Map(this._styles) copies the outer Map only: the snapshot holds the
\* same inner Maps as _styles
Snapshot(r) ==
  [text |-> r.text, styles |-> r.styles,
   selection |-> <<r.selectionStart, r.selectionEnd>>]

RecordSnapshotKeepRedo(r) == [r EXCEPT !.undoStack = Append(@, Snapshot(r))]

_recordSnapshot(r) ==
  [r EXCEPT !.undoStack = Append(@, Snapshot(r)), !.redoStack = << >>]

undo(r) ==
  IF Len(r.undoStack) = 0 THEN r
  ELSE LET snapshot == r.undoStack[Len(r.undoStack)]
       IN forceUpdate(_updateTextarea(
            [r EXCEPT !.undoStack = SubSeq(@, 1, Len(@) - 1),
                      !.redoStack = Append(@, Snapshot(r)),
                      !.text = snapshot.text,
                      !.styles = snapshot.styles,
                      !.selectionStart = snapshot.selection[1],
                      !.selectionEnd = snapshot.selection[2]]))

redo(r) ==
  IF Len(r.redoStack) = 0 THEN r
  ELSE LET snapshot == r.redoStack[Len(r.redoStack)]
       IN forceUpdate(_updateTextarea(
            [r EXCEPT !.redoStack = SubSeq(@, 1, Len(@) - 1),
                      !.undoStack = Append(@, Snapshot(r)),
                      !.text = snapshot.text,
                      !.styles = snapshot.styles,
                      !.selectionStart = snapshot.selection[1],
                      !.selectionEnd = snapshot.selection[2]]))

----------------------------------------------------------------------------
(* Style operations                                                        *)

RECURSIVE MergeRange(_, _, _, _)
MergeRange(r, i, end, style) ==
  IF i >= end THEN r
  ELSE LET loc == _linearToLocation(r, i)
           existing == CellOf(r, r.styles, loc.lineIndex, loc.charIndex)
       IN MergeRange(SetCell(r, loc.lineIndex, loc.charIndex, Spread(existing, style)),
                     i + 1, end, style)

SetSelectionStylesNoGuard(r, style) ==
  LET r1 == _recordSnapshot(r)
      Merged(r2) == MergeRange(r2, r2.selectionStart, r2.selectionEnd, style)
  IN forceUpdate(_measureText(
       Merged(IF Len(r.graphemes) = 0 \/ Len(r.lines) = 0
              THEN _updateGraphemes(r1) ELSE r1)))

setSelectionStyles(r, style) ==
  IF r.selectionStart = r.selectionEnd THEN r
  ELSE LET r1 == _recordSnapshot(r)
           Merged(r2) == MergeRange(r2, r2.selectionStart, r2.selectionEnd, style)
       IN forceUpdate(_measureText(
            Merged(IF Len(r.graphemes) = 0 \/ Len(r.lines) = 0
                   THEN _updateGraphemes(r1) ELSE r1)))

RECURSIVE DeleteRange(_, _, _)
DeleteRange(r, i, end) ==
  IF i >= end THEN r
  ELSE LET loc == _linearToLocation(r, i)
       IN DeleteRange(DeleteCell(r, loc.lineIndex, loc.charIndex), i + 1, end)

clearSelectionStyles(r) ==
  IF r.selectionStart = r.selectionEnd THEN r
  ELSE LET r1 == _recordSnapshot(r)
       IN forceUpdate(_measureText(DeleteRange(r1, r1.selectionStart, r1.selectionEnd)))

\* if (styleObj.k !== undefined) this.k = styleObj.k
SetBaseStyle(r, styleObj) ==
  [r EXCEPT !.fontSize = IF Has(styleObj, "fontSize") THEN Get(styleObj, "fontSize") ELSE @,
            !.fill = IF Has(styleObj, "fill") THEN Get(styleObj, "fill") ELSE @]

setFullTextStyles(r, styleObj) ==
  LET Merged(r2) == MergeRange(r2, 0, Len(r2.graphemes), styleObj)
  IN forceUpdate(_measureText(
       Merged(SetBaseStyle(_recordSnapshot(_updateGraphemes(r)), styleObj))))

clearFullTextStyles(r) ==
  forceUpdate(_measureText([_recordSnapshot(r) EXCEPT !.styles = EmptyMap]))

\* one range of styleRanges: this._styles.get(line).set(col, { ...style })
RECURSIVE LoadRange(_, _, _, _)
LoadRange(r, i, end, style) ==
  IF i >= end \/ i >= Len(r.graphemes) THEN r
  ELSE LET loc == _linearToLocation(r, i)
       IN LoadRange(SetCell(r, loc.lineIndex, loc.charIndex, style), i + 1, end, style)

RECURSIVE LoadRanges(_, _, _)
LoadRanges(r, ranges, k) ==
  IF k > Len(ranges) THEN r
  ELSE LoadRanges(LoadRange(r, ranges[k].start, ranges[k].end, ranges[k].style),
                  ranges, k + 1)

\* the constructor's import of data.styleRanges
_loadFromStyleRanges(r, ranges) ==
  LET Cleared(r2) == [r2 EXCEPT !.styles = EmptyMap]
      Split(r2) == IF Len(r2.graphemes) = 0 /\ Len(r2.text) > 0
                   THEN _updateGraphemes(r2) ELSE r2
  IN LoadRanges(Split(Cleared(r)), ranges, 1)

----------------------------------------------------------------------------
(* Text input                                                              *)

_shiftStylesBeforeTextChange(r, start, removedCount, insertedCount) ==
  IF removedCount = 0 /\ insertedCount = 0 THEN r
  ELSE
    LET oldLinearStyles == _convertStylesToLinear(r)
        delta == insertedCount - removedCount
        kept == {n \in DOMAIN oldLinearStyles : n < start}
        moved == {n \in DOMAIN oldLinearStyles : n >= start + removedCount}
        refIndex == IF start > 0 THEN start - 1
                    ELSE IF start + removedCount < Cardinality(DOMAIN oldLinearStyles)
                         THEN start + removedCount ELSE -1
        inserted == IF insertedCount > 0 /\ refIndex \in DOMAIN oldLinearStyles
                    THEN start..(start + insertedCount - 1) ELSE {}
        newLinearStyles ==
          [n \in kept \cup {m + delta : m \in moved} \cup inserted |->
             IF n \in inserted THEN oldLinearStyles[refIndex]
             ELSE IF n \in kept THEN oldLinearStyles[n]
             ELSE oldLinearStyles[n - delta]]
    IN [r EXCEPT !.pendingLinearStyles = Some(newLinearStyles)]

RECURSIVE CommonPrefix(_, _, _)
CommonPrefix(oldG, newG, prefix) ==
  IF prefix < Len(oldG) /\ prefix < Len(newG) /\ oldG[prefix + 1] = newG[prefix + 1]
  THEN CommonPrefix(oldG, newG, prefix + 1) ELSE prefix

RECURSIVE CommonSuffix(_, _, _, _)
CommonSuffix(oldG, newG, prefix, suffix) ==
  IF suffix < Len(oldG) - prefix /\ suffix < Len(newG) - prefix
     /\ oldG[Len(oldG) - suffix] = newG[Len(newG) - suffix]
  THEN CommonSuffix(oldG, newG, prefix, suffix + 1) ELSE suffix

_onInput(r) ==
  IF r.hiddenTextarea = None \/ r.inComposition THEN r
  ELSE
    LET ta == r.hiddenTextarea[1]
        newText == ta.value
        oldG == r.graphemes
        newG == graphemeSplit(newText)
        prefix == CommonPrefix(oldG, newG, 0)
        suffix == CommonSuffix(oldG, newG, prefix, 0)
        removedCount == Len(oldG) - prefix - suffix
        insertedCount == Len(newG) - prefix - suffix
        r1 == _shiftStylesBeforeTextChange(_recordSnapshot(r), prefix,
                                           removedCount, insertedCount)
    IN IF newText = r.text
       THEN [r EXCEPT !.selectionStart = ta.selectionStart,
                      !.selectionEnd = ta.selectionEnd]
       ELSE forceUpdate([r1 EXCEPT !.text = newText,
                                   !.selectionStart = ta.selectionStart,
                                   !.selectionEnd = ta.selectionEnd])

insertText(r, text, pos) ==
  LET count == Len(graphemeSplit(text))
  IN IF r.hiddenTextarea = None
     THEN forceUpdate(
            [_recordSnapshot(r) EXCEPT
               !.text = Join(SliceTo(r.graphemes, pos) \o graphemeSplit(text)
                               \o SliceFrom(r.graphemes, r.selectionEnd)),
               !.selectionStart = pos + count,
               !.selectionEnd = pos + count])
     ELSE LET ta == r.hiddenTextarea[1]
              value == SliceTo(ta.value, pos) \o text \o SliceFrom(ta.value, r.selectionEnd)
          IN _onInput([r EXCEPT !.hiddenTextarea =
                 Some(TaSelect([ta EXCEPT !.value = value], pos + count, pos + count))])

deleteSelection(r) ==
  IF r.selectionStart = r.selectionEnd THEN r
  ELSE insertText(r, << >>, r.selectionStart)

----------------------------------------------------------------------------
(* Selection                                                               *)

\* _updateSelection with the end of the selection remembered as the anchor
\* when none was
UpdateSelectionAnchorAtEnd(r, newPos, expand) ==
  IF expand
  THEN LET anchor == IF r.selectionAnchor = None THEN r.selectionEnd
                     ELSE r.selectionAnchor[1]
       IN [r EXCEPT !.selectionAnchor = Some(anchor),
                    !.selectionStart = Min(anchor, newPos),
                    !.selectionEnd = Max(anchor, newPos)]
  ELSE [r EXCEPT !.selectionAnchor = None,
                 !.selectionStart = newPos, !.selectionEnd = newPos]

_updateSelection(r, newPos, expand) ==
  IF expand
  THEN LET anchor == IF r.selectionAnchor = None THEN r.selectionStart
                     ELSE r.selectionAnchor[1]
       IN [r EXCEPT !.selectionAnchor = Some(anchor),
                    !.selectionStart = Min(anchor, newPos),
                    !.selectionEnd = Max(anchor, newPos)]
  ELSE [r EXCEPT !.selectionAnchor = None,
                 !.selectionStart = newPos, !.selectionEnd = newPos]

_moveCursor(r, direction, expand) ==
  LET newPos == IF direction < 0 THEN r.selectionStart ELSE r.selectionEnd
  IN _updateTextarea(
       IF ~expand /\ r.selectionStart # r.selectionEnd
       THEN [r EXCEPT !.selectionStart = newPos, !.selectionEnd = newPos,
                      !.selectionAnchor = None]
       ELSE _updateSelection(r, Max(0, Min(newPos + direction, Len(r.graphemes))), expand))

_moveVertical(r, direction, expand) ==
  LET baseIndex == IF direction < 0 THEN r.selectionStart ELSE r.selectionEnd
      loc == _linearToLocation(r, baseIndex)
      targetLine == Max(0, Min(loc.lineIndex + direction, Len(r.lines) - 1))
      targetCharIndex == Min(loc.charIndex, Len(r.lines[targetLine + 1]))
      newPos == _locationToLinear(r, targetLine, targetCharIndex)
  IN IF targetLine = loc.lineIndex THEN r
     ELSE _updateTextarea(_updateSelection(r, newPos, expand))

\* this._lines[loc.lineIndex] is undefined while _lines is empty: the handler
\* throws before it changes anything
_moveToLineEnd(r, toStart, expand) ==
  LET baseIndex == IF toStart THEN r.selectionStart ELSE r.selectionEnd
      loc == _linearToLocation(r, baseIndex)
      lineStart == _locationToLinear(r, loc.lineIndex, 0)
      lineEnd == lineStart + Len(r.lines[loc.lineIndex + 1])
  IN IF Len(r.lines) = 0 THEN r
     ELSE _updateTextarea(_updateSelection(r, IF toStart THEN lineStart ELSE lineEnd, expand))

\* RE_WORD_BOUNDARY.test(text[index]); text[index] is undefined out of range
BoundaryAt(text, index) ==
  index >= 0 /\ index < Len(text) /\ IsWordBoundary(text[index + 1])

RECURSIVE SkipWhile(_, _, _, _)
SkipWhile(text, index, direction, boundary) ==
  IF index >= 0 /\ index < Len(text) /\ (IsWordBoundary(text[index + 1]) <=> boundary)
  THEN SkipWhile(text, index + direction, direction, boundary) ELSE index

_moveByWord(r, direction, expand) ==
  LET baseIndex == IF direction < 0 THEN r.selectionStart ELSE r.selectionEnd
      text == r.graphemes
      i1 == SkipWhile(text, baseIndex, direction, TRUE)
      i2 == SkipWhile(text, i1, direction, FALSE)
      index == IF direction = -1 /\ i2 >= 0 /\ BoundaryAt(text, i2) THEN i2 + 1 ELSE i2
      newPos == Max(0, Min(index, Len(text)))
  IN _updateTextarea(_updateSelection(r, newPos, expand))

selectAll(r) ==
  _updateTextarea([r EXCEPT !.selectionStart = 0, !.selectionEnd = Len(r.graphemes)])

RECURSIVE WordStart(_, _)
WordStart(text, start) ==
  IF start > 0 /\ ~BoundaryAt(text, start - 1) THEN WordStart(text, start - 1) ELSE start

RECURSIVE WordEnd(_, _)
WordEnd(text, end) ==
  IF end < Len(text) /\ ~BoundaryAt(text, end) THEN WordEnd(text, end + 1) ELSE end

\* _selectWord without the scan to the left of the index
SelectWordForward(r, index) ==
  _updateTextarea([r EXCEPT !.selectionStart = index,
                            !.selectionEnd = WordEnd(r.graphemes, index),
                            !.selectionAnchor = None])

_selectWord(r, index) ==
  _updateTextarea([r EXCEPT !.selectionStart = WordStart(r.graphemes, index),
                            !.selectionEnd = WordEnd(r.graphemes, index),
                            !.selectionAnchor = None])

_selectLine(r, index) ==
  LET loc == _linearToLocation(r, index)
      start == _locationToLinear(r, loc.lineIndex, 0)
      end == start + Len(r.lines[loc.lineIndex + 1])
  IN IF Len(r.lines) = 0 THEN r
     ELSE _updateTextarea([r EXCEPT !.selectionStart = start, !.selectionEnd = end,
                                    !.selectionAnchor = None])

----------------------------------------------------------------------------
(* Pointer                                                                 *)

_handlePointerDown(r, x, y, shiftKey) ==
  IF ~r.editable \/ ~r.isEditing THEN r
  ELSE
    LET anchor == IF r.selectionAnchor = None THEN r.selectionStart
                  ELSE r.selectionAnchor[1]
        Down(index) ==
          IF shiftKey
          THEN [r EXCEPT !.selectionAnchor = Some(anchor),
                         !.selectionStart = Min(anchor, index),
                         !.selectionEnd = Max(anchor, index)]
          ELSE [r EXCEPT !.selectionAnchor = Some(index),
                         !.selectionStart = index, !.selectionEnd = index,
                         !.isMouseDown = TRUE]
    IN _updateTextarea(Down(_pointerToIndex(r, x, y)))

_handlePointerMove(r, x, y) ==
  IF ~r.isMouseDown \/ ~r.isEditing THEN r
  ELSE
    LET Move(index) ==
          IF r.selectionAnchor # None
          THEN [r EXCEPT !.selectionStart = Min(r.selectionAnchor[1], index),
                         !.selectionEnd = Max(r.selectionAnchor[1], index)]
          ELSE r
    IN _updateTextarea(Move(_pointerToIndex(r, x, y)))

_handlePointerUp(r) == [r EXCEPT !.isMouseDown = FALSE]

\* the double_tap listener of _bindEvents
OnDoubleTap(r, x, y) ==
  LET Tap(index) ==
        IF r.isEditing
        THEN _selectWord([r EXCEPT !.pendingCursorPosition = Some(index)], index)
        ELSE [r EXCEPT !.pendingCursorPosition = Some(index)]
  IN Tap(_pointerToIndex(r, x, y))

\* the tap listener of _bindEvents, for the third tap of a series
\* the clock of the taps, in milliseconds: Date.now() when the next tap
\* arrives, _tapCount and _lastTapTime, and the times of the last taps that
\* were counted
TapWindow == 500
TapStep == 250
MaxTaps == 4
MaxClock == 1750

\* the taps of a document whose clock is not followed: every tap that is
\* delivered is the third of a triple tap
Uncounted == [counted |-> FALSE, now |-> 0, tapCount |-> 0, lastTapTime |-> 0,
              history |-> << >>]

LastTaps(history) ==
  IF Len(history) > MaxTaps THEN SubSeq(history, Len(history) - MaxTaps + 1, Len(history))
  ELSE history

_checkTripleTap(r, x, y) ==
  IF ~r.isEditing THEN r
  ELSE IF ~r.taps.counted THEN _selectLine(r, _pointerToIndex(r, x, y))
  ELSE
    LET now == r.taps.now
        tapCount == IF now - r.taps.lastTapTime < TapWindow
                    THEN r.taps.tapCount + 1 ELSE 1
        r1 == [r EXCEPT !.taps.tapCount = tapCount, !.taps.lastTapTime = now,
                        !.taps.history = LastTaps(Append(@, now))]
    IN IF tapCount = 3 THEN _selectLine(r1, _pointerToIndex(r1, x, y)) ELSE r1

----------------------------------------------------------------------------
(* The caret.  timers holds the callbacks of this instance that setTimeout *)
(* and requestAnimationFrame have not run yet: one record per blink loop,  *)
(* with the loop's closure variable increasing.  A loop is named by the    *)
(* count of _startCursorBlink calls that made it; _cursorTimer holds the   *)
(* loop whose frame request was made last.  The callbacks are recorded     *)
(* when the instance has a clock (timers.clocked).                         *)

Unclocked == [clocked |-> FALSE, started |-> 0, loops |-> {}]

_stopCursorBlink(r) ==
  [r EXCEPT !.timers.loops =
              IF r.cursorTimer # None
              THEN {l \in @ : ~(l.stage = "frame" /\ l.id = r.cursorTimer[1])}
              ELSE @,
            !.cursorTimer = None,
            !.cursorOpacity = OpacitySteps]

\* setTimeout(() => { this._cursorTimer = requestAnimationFrame(blink) }, cursorDelay)
_startCursorBlink(r) ==
  LET Delayed(r2) ==
        [r2 EXCEPT !.timers.started = @ + 1,
                   !.timers.loops = @ \cup {[id |-> r2.timers.started + 1,
                                             stage |-> "delay", increasing |-> FALSE]}]
      Started(r2) == IF r2.timers.clocked THEN Delayed(r2) ELSE r2
  IN Started(_stopCursorBlink(r))

\* the timeout of loop l has elapsed
BlinkTimeout(r, l) ==
  [r EXCEPT !.cursorTimer = Some(l.id),
            !.timers.loops = (@ \ {l}) \cup {[l EXCEPT !.stage = "frame"]}]

\* the frame callback of loop l
blink(r, l) ==
  IF ~r.isEditing \/ r.selectionStart # r.selectionEnd
  THEN [r EXCEPT !.cursorOpacity = OpacitySteps, !.timers.loops = @ \ {l}]
  ELSE LET opacity == IF l.increasing THEN Min(r.cursorOpacity + 1, OpacitySteps)
                      ELSE Max(r.cursorOpacity - 1, 0)
           increasing == IF l.increasing THEN r.cursorOpacity + 1 < OpacitySteps
                         ELSE r.cursorOpacity - 1 <= 0
       IN [r EXCEPT !.cursorOpacity = opacity,
                    !.cursorTimer = Some(l.id),
                    !.timers.loops = (@ \ {l}) \cup {[l EXCEPT !.increasing = increasing]}]

----------------------------------------------------------------------------
(* Editing lifecycle.  These methods reach the EditingManager and, through *)
(* it, another instance: they take and return the world w = [rt,           *)
(* activeEditor, fired], where fired lists the onEditingEntered and        *)
(* onEditingExited callbacks the call has run, in order.                   *)

clearActive(w, editor) ==
  IF w.activeEditor = editor THEN [w EXCEPT !.activeEditor = NoEditor] ELSE w

ExitEditingNoGuard(w, i) ==
  LET r1 == _stopCursorBlink(_destroyHiddenTextarea([w.rt[i] EXCEPT !.isEditing = FALSE]))
      r2 == [r1 EXCEPT !.selectionStart = 0, !.selectionEnd = 0]
  IN [clearActive([w EXCEPT !.rt[i] = r2], i) EXCEPT
        !.fired = Append(@, <<i, "exited">>)]

exitEditing(w, i) ==
  IF ~w.rt[i].isEditing THEN w
  ELSE
    LET r1 == _stopCursorBlink(_destroyHiddenTextarea([w.rt[i] EXCEPT !.isEditing = FALSE]))
        r2 == [r1 EXCEPT !.selectionStart = 0, !.selectionEnd = 0]
    IN [clearActive([w EXCEPT !.rt[i] = r2], i) EXCEPT
          !.fired = Append(@, <<i, "exited">>)]

RequestEditingNoEvict(w, editor) == [w EXCEPT !.activeEditor = editor]

requestEditing(w, editor) ==
  LET w1 == IF w.activeEditor # NoEditor /\ w.activeEditor # editor
            THEN exitEditing(w, w.activeEditor) ELSE w
  IN [w1 EXCEPT !.activeEditor = editor]

\* enterEditing up to the call of the EditingManager
BeforeRequest(w, i) ==
  LET r0 == w.rt[i]
  IN [w EXCEPT !.rt[i] = IF Len(r0.graphemes) = 0 /\ Len(r0.text) > 0
                         THEN _updateGraphemes(r0) ELSE r0]

\* enterEditing from the return of the EditingManager to the callback
AfterRequest(w1, i, cursorPosition) ==
  LET Target(r2) == IF cursorPosition # None THEN cursorPosition
                    ELSE r2.pendingCursorPosition
      Place(r2, p) == [r2 EXCEPT !.selectionStart = p, !.selectionEnd = p,
                                 !.pendingCursorPosition = None]
      Focus(r2) ==
        IF Target(r2) # None
        THEN Place(r2, Max(0, Min(Target(r2)[1], Len(r2.graphemes))))
        ELSE r2
  IN [w1 EXCEPT !.rt[i] =
        _startCursorBlink(
          _createHiddenTextarea(Focus([w1.rt[i] EXCEPT !.isEditing = TRUE]))),
                !.fired = Append(@, <<i, "entered">>)]

enterEditing(w, i, cursorPosition) ==
  IF w.rt[i].isEditing \/ ~w.rt[i].editable THEN w
  ELSE AfterRequest(requestEditing(BeforeRequest(w, i), i), i, cursorPosition)

AppEvents == {"pointer.down", "pointer.move", "pointer.up", "key.down"}

\* RichTextEditor.onLoad
onLoad(w, i) ==
  LET w1 == IF ~w.rt[i].isEditing THEN enterEditing(w, i, None) ELSE w
      richtext == w1.rt[i]
      saved == [hotkey |-> richtext.editor.hotkey, locked |-> richtext.locked]
  IN [w1 EXCEPT !.rt[i] =
        [richtext EXCEPT !.editor = [hotkey |-> FALSE, innerEditing |-> TRUE,
                                     savedEditorConfig |-> Some(saved),
                                     eventIds |-> AppEvents],
                         !.locked = TRUE]]

\* RichTextEditor.onUnload
onUnload(w, i) ==
  LET w1 == IF w.rt[i].isEditing THEN exitEditing(w, i) ELSE w
      richtext == w1.rt[i]
      saved == richtext.editor.savedEditorConfig
  IN [w1 EXCEPT !.rt[i] =
        IF saved # None
        THEN [richtext EXCEPT !.editor = [hotkey |-> saved[1].hotkey, innerEditing |-> FALSE,
                                          savedEditorConfig |-> None, eventIds |-> {}],
                              !.locked = saved[1].locked]
        ELSE [richtext EXCEPT !.editor.innerEditing = FALSE, !.editor.eventIds = {}]]

\* The same calls with the callbacks run.  A callback is None or the
\* instance whose enterEditing() it calls; one callback is registered on the
\* canvas, so the call it makes runs no callback in turn.
RunCallback(w, callback) ==
  IF callback = None THEN w ELSE enterEditing(w, callback[1], None)

exitEditingReentrant(w, i) ==
  IF ~w.rt[i].isEditing THEN w
  ELSE RunCallback(exitEditing(w, i), w.rt[i].onEditingExited)

requestEditingReentrant(w, editor) ==
  LET w1 == IF w.activeEditor # NoEditor /\ w.activeEditor # editor
            THEN exitEditingReentrant(w, w.activeEditor) ELSE w
  IN [w1 EXCEPT !.activeEditor = editor]

enterEditingReentrant(w, i, cursorPosition) ==
  IF w.rt[i].isEditing \/ ~w.rt[i].editable THEN w
  ELSE RunCallback(
         AfterRequest(requestEditingReentrant(BeforeRequest(w, i), i), i, cursorPosition),
         w.rt[i].onEditingEntered)

----------------------------------------------------------------------------
(* Heap references carry no meaning: after every call the inner Maps that  *)
(* are still reachable are renumbered in the order _styles, the undo       *)
(* stack and the redo stack reach them, and the others are collected.      *)

RefsOfStyles(styles) ==
  LET ls == SortedSeq(DOMAIN styles) IN [k \in 1..Len(ls) |-> styles[ls[k]]]

RECURSIVE RefsOfStack(_)
RefsOfStack(stack) ==
  IF Len(stack) = 0 THEN << >>
  ELSE RefsOfStyles(Head(stack).styles) \o RefsOfStack(Tail(stack))

RECURSIVE Dedup(_, _)
Dedup(seq, seen) ==
  IF Len(seq) = 0 THEN << >>
  ELSE IF Head(seq) \in seen THEN Dedup(Tail(seq), seen)
       ELSE <<Head(seq)>> \o Dedup(Tail(seq), seen \cup {Head(seq)})

Canon(r) ==
  LET order == Dedup(RefsOfStyles(r.styles) \o RefsOfStack(r.undoStack)
                       \o RefsOfStack(r.redoStack), {})
      new(ref) == CHOOSE k \in 1..Len(order) : order[k] = ref
      renameStyles(styles) == [l \in DOMAIN styles |-> new(styles[l])]
      renameStack(stack) ==
        [k \in 1..Len(stack) |-> [stack[k] EXCEPT !.styles = renameStyles(@)]]
  IN [r EXCEPT !.heap = [k \in 1..Len(order) |-> r.heap[order[k]]],
               !.styles = renameStyles(@),
               !.undoStack = renameStack(@),
               !.redoStack = renameStack(@)]

----------------------------------------------------------------------------
(* Construction                                                            *)

\* new RichText({ text, width, autoWidth, textWrap }) before its first layout
\* The host editor of an instance and its RichTextEditor: config.hotkey,
\* whether the inner editor is open, _savedEditorConfig and the events of
\* the listeners in eventIds
NoInnerEditor == [hotkey |-> TRUE, innerEditing |-> FALSE,
                  savedEditorConfig |-> None, eventIds |-> {}]

NewRichText(text, width, autoWidth, textWrap) ==
  [text |-> text, fontSize |-> DefaultFontSize, fill |-> DefaultFill,
   letterSpacing |-> 0, textAlign |-> "left", width |-> width, autoWidth |-> autoWidth,
   textWrap |-> textWrap, padding |-> 0, paraIndent |-> 0, paraSpacing |-> 0,
   editable |-> TRUE, isEditing |-> FALSE,
   selectionStart |-> 0, selectionEnd |-> 0,
   graphemes |-> << >>, lines |-> << >>, lineMetrics |-> << >>,
   styles |-> EmptyMap, heap |-> EmptyMap,
   hiddenTextarea |-> None, inComposition |-> FALSE,
   selectionAnchor |-> None, isMouseDown |-> FALSE,
   pendingCursorPosition |-> None,
   undoStack |-> << >>, redoStack |-> << >>,
   pendingLinearStyles |-> None, boxChanged |-> TRUE,
   cursorOpacity |-> OpacitySteps, cursorTimer |-> None, timers |-> Unclocked,
   taps |-> Uncounted, onEditingEntered |-> None, onEditingExited |-> None,
   locked |-> FALSE, editor |-> NoInnerEditor]

World == [rt |-> rt, activeEditor |-> activeEditor, fired |-> << >>]

----------------------------------------------------------------------------
(* What a reader of the element sees: the text, the selection and, for     *)
(* every visible grapheme, the style it is drawn with, once the pending    *)
(* layout pass has run.                                                    *)

Laid(r) == IF r.boxChanged THEN __updateBoxBounds(r) ELSE r

\* the cells of _lines that hold grapheme g (0-based)
CellsOfGrapheme(r, g) ==
  {x \in UNION {{<<l, c>> : c \in 0..(Len(r.lines[l + 1]) - 1)} : l \in 0..(Len(r.lines) - 1)} :
     r.lines[x[1] + 1][x[2] + 1] = g}

\* the override stored for grapheme g: the one of the cell it sits in
OverrideOf(r, g) ==
  IF CellsOfGrapheme(r, g) = {} THEN << >>
  ELSE LET x == CHOOSE x \in CellsOfGrapheme(r, g) : TRUE
       IN CellOf(r, r.styles, x[1], x[2])

\* the style grapheme g is drawn with (_measureText and the renderer ask
\* _getCharStyle with the cell of the grapheme)
ResolvedOf(r, g) ==
  IF CellsOfGrapheme(r, g) = {} THEN [k \in StyleFields |-> "none"]
  ELSE LET x == CHOOSE x \in CellsOfGrapheme(r, g) : TRUE
       IN _getCharStyle(r, x[1], x[2])

View(q) ==
  [text |-> q.text,
   selection |-> <<q.selectionStart, q.selectionEnd>>,
   styles |-> [g \in 0..(Len(q.graphemes) - 1) |-> ResolvedOf(q, g)]]

ViewOf(r) == View(Laid(r))

----------------------------------------------------------------------------
(* The record of the last call: the operation, its instance and arguments, *)
(* the active editor and the heights of the undo and redo stacks before it, and the position in a run *)
(* of snapshot-recording operations followed by undos and then redos.      *)

\* the call pushed a snapshot with _recordSnapshot
Recorded(op, r, r2) ==
  op \notin {"undo", "redo"} /\ Len(r2.undoStack) = Len(r.undoStack) + 1

\* before and final are the instance before and after the last recording call
NoRun == [run |-> 0, before |-> << >>, final |-> << >>, undone |-> 0, redone |-> 0]

\* runs are followed in the histories that start with NoRun and are not
\* followed in those that start with Unfollowed
Unfollowed == [NoRun EXCEPT !.run = -1]

Track(i, op, r, r2) ==
  IF last.track.run < 0 THEN last.track
  ELSE IF Recorded(op, r, r2)
  THEN [run |-> IF last.inst = i /\ last.track.run >= 1 /\ last.track.undone = 0
                THEN last.track.run + 1 ELSE 1,
        before |-> r, final |-> r2, undone |-> 0, redone |-> 0]
  ELSE IF op = "undo" /\ last.inst = i /\ last.track.run >= 1
          /\ last.track.redone = 0 /\ last.track.undone < last.track.run
       THEN [last.track EXCEPT !.undone = @ + 1]
  ELSE IF op = "redo" /\ last.inst = i /\ last.track.run >= 1
          /\ last.track.undone = last.track.run /\ last.track.redone < last.track.run
       THEN [last.track EXCEPT !.redone = @ + 1]
  ELSE NoRun

\* the last callback every instance has run ("none" before the first one);
\* the callbacks are followed in the histories that start with Listening
\* and are not followed in those that start with NotListening
NotListening == << >>
Listening == [j \in Inst |-> "none"]

RECURSIVE Hear(_, _)
Hear(heard, fired) ==
  IF heard = NotListening \/ Len(fired) = 0 THEN heard
  ELSE Hear([heard EXCEPT ![Head(fired)[1]] = Head(fired)[2]], Tail(fired))

\* a call of a method that touches one instance only; no record is kept in
\* the histories that start with Unrecorded
Return(i, op, args, r) ==
  /\ rt' = [rt EXCEPT ![i] = r]
  /\ activeEditor' = activeEditor
  /\ last' = IF last.inst < 0 THEN last
             ELSE [op |-> op, inst |-> i, args |-> args, prev |-> activeEditor,
                   stacks |-> <<Len(rt[i].undoStack), Len(rt[i].redoStack)>>,
                   track |-> Track(i, op, rt[i], r),
                   fired |-> << >>, heard |-> last.heard]

Call(i, op, args, r) == Return(i, op, args, Canon(r))

\* a call of a method that reaches the EditingManager
CallWorld(i, op, args, w) ==
  /\ rt' = [j \in Inst |-> Canon(w.rt[j])]
  /\ activeEditor' = w.activeEditor
  /\ last' = IF last.inst < 0 THEN last
             ELSE [op |-> op, inst |-> i, args |-> args, prev |-> activeEditor,
                   stacks |-> <<Len(rt[i].undoStack), Len(rt[i].redoStack)>>,
                   track |-> IF last.track.run < 0 THEN last.track ELSE NoRun,
                   fired |-> w.fired, heard |-> Hear(last.heard, w.fired)]

\* the step is a call on instance i: the layout pass is the only step that
\* takes boxChanged from TRUE to FALSE, and it leaves the record of the last call
Called(i) ==
  last'.inst = i /\ ~(\E j \in Inst : rt[j].boxChanged /\ ~rt'[j].boxChanged)

NoCall == [op |-> "new", inst |-> 0, args |-> << >>, prev |-> NoEditor,
           stacks |-> <<0, 0>>, track |-> Unfollowed,
           fired |-> << >>, heard |-> NotListening]

Unrecorded == [NoCall EXCEPT !.inst = -1]

----------------------------------------------------------------------------
(* Operations                                                              *)

\* the host's layout pass reaches an instance whose box has changed
Layout(i) ==
  /\ rt[i].boxChanged
  /\ rt' = [rt EXCEPT ![i] = Canon(__updateBoxBounds(rt[i]))]
  /\ UNCHANGED <<activeEditor, last>>

EnterEditing(i, cursorPosition) ==
  CallWorld(i, "enterEditing", <<cursorPosition>>, enterEditing(World, i, cursorPosition))

ExitEditing(i) ==
  CallWorld(i, "exitEditing", << >>, exitEditing(World, i))

\* editor.openInnerEditor(): the host creates the inner editor of the
\* selected instance and calls onLoad
OpenInnerEditor(i) ==
  /\ ~rt[i].editor.innerEditing
  /\ CallWorld(i, "openInnerEditor", << >>, onLoad(World, i))

\* editor.closeInnerEditor(): the host calls onUnload
CloseInnerEditor(i) ==
  /\ rt[i].editor.innerEditing
  /\ CallWorld(i, "closeInnerEditor", << >>, onUnload(World, i))

\* the pointer.down listener of onLoad: a hit on the text is forwarded, any
\* other pointer down closes the inner editor
AppPointerDown(i, x, y, clickedOnText) ==
  /\ "pointer.down" \in rt[i].editor.eventIds
  /\ CallWorld(i, "appPointerDown", <<x, y, clickedOnText>>,
               IF clickedOnText
               THEN [World EXCEPT !.rt[i] = _handlePointerDown(@, x, y, FALSE)]
               ELSE onUnload(World, i))

EnterEditingReentrant(i) ==
  CallWorld(i, "enterEditing", <<None>>, enterEditingReentrant(World, i, None))

ExitEditingReentrant(i) ==
  CallWorld(i, "exitEditing", << >>, exitEditingReentrant(World, i))

\* keydown reaches _onKeyDown through the textarea only
KeyEscape(i) ==
  /\ rt[i].hiddenTextarea # None
  /\ CallWorld(i, "Escape", << >>, exitEditing(World, i))

SetEditable(i, b) ==
  /\ rt[i].editable # b
  /\ Call(i, "editable", <<b>>, forceUpdate([rt[i] EXCEPT !.editable = b]))

\* the user types s: the browser replaces the textarea's selection by s, puts
\* the caret after it and fires 'input'
TypeText(i, s) ==
  /\ rt[i].hiddenTextarea # None
  /\ Len(rt[i].undoStack) < MaxUndo
  /\ LET ta == rt[i].hiddenTextarea[1]
         value == SliceTo(ta.value, ta.selectionStart) \o s
                    \o SliceFrom(ta.value, ta.selectionEnd)
         caret == ta.selectionStart + Len(s)
         typed == [ta EXCEPT !.value = value, !.selectionStart = caret,
                             !.selectionEnd = caret]
     IN /\ Len(value) <= MaxLen
        /\ Call(i, "input", <<s>>,
                _onInput([rt[i] EXCEPT !.hiddenTextarea = Some(typed)]))

\* Backspace: the browser removes the selection, or the code point before the
\* caret, and fires 'input'
Backspace(i) ==
  /\ rt[i].hiddenTextarea # None
  /\ Len(rt[i].undoStack) < MaxUndo
  /\ LET ta == rt[i].hiddenTextarea[1]
         from == IF ta.selectionStart # ta.selectionEnd THEN ta.selectionStart
                 ELSE IF ta.selectionStart >= 2
                         /\ ta.value[ta.selectionStart - 1] = "H"
                         /\ ta.value[ta.selectionStart] = "L"
                      THEN ta.selectionStart - 2
                      ELSE ta.selectionStart - 1
         typed == [ta EXCEPT !.value = SliceTo(ta.value, from)
                                         \o SliceFrom(ta.value, ta.selectionEnd),
                             !.selectionStart = from, !.selectionEnd = from]
     IN /\ ta.selectionEnd > 0
        /\ Call(i, "backspace", << >>,
                _onInput([rt[i] EXCEPT !.hiddenTextarea = Some(typed)]))

\* the compositionstart listener of the textarea
CompositionStart(i) ==
  /\ rt[i].hiddenTextarea # None
  /\ ~rt[i].inComposition
  /\ Call(i, "compositionStart", << >>, [rt[i] EXCEPT !.inComposition = TRUE])

\* the compositionend listener of the textarea
CompositionEnd(i) ==
  /\ rt[i].hiddenTextarea # None
  /\ rt[i].inComposition
  /\ Call(i, "compositionEnd", << >>, _onInput([rt[i] EXCEPT !.inComposition = FALSE]))

KeyArrow(i, direction, shiftKey) ==
  /\ rt[i].hiddenTextarea # None
  /\ Call(i, "moveCursor", <<direction, shiftKey>>,
          _moveCursor(rt[i], direction, shiftKey))

KeyVertical(i, direction, shiftKey) ==
  /\ rt[i].hiddenTextarea # None
  /\ Call(i, "moveVertical", <<direction, shiftKey>>,
          _moveVertical(rt[i], direction, shiftKey))

KeyHomeEnd(i, toStart, shiftKey) ==
  /\ rt[i].hiddenTextarea # None
  /\ Call(i, "moveToLineEnd", <<toStart, shiftKey>>,
          _moveToLineEnd(rt[i], toStart, shiftKey))

KeyWord(i, direction, shiftKey) ==
  /\ rt[i].hiddenTextarea # None
  /\ Call(i, "moveByWord", <<direction, shiftKey>>,
          _moveByWord(rt[i], direction, shiftKey))

SelectAll(i) == Call(i, "selectAll", << >>, selectAll(rt[i]))

Undo(i) == Call(i, "undo", << >>, undo(rt[i]))

Redo(i) == Call(i, "redo", << >>, redo(rt[i]))

SetSelectionStyles(i, style) ==
  /\ Len(rt[i].undoStack) < MaxUndo
  /\ Call(i, "setSelectionStyles", <<style>>, setSelectionStyles(rt[i], style))

ClearSelectionStyles(i) ==
  /\ Len(rt[i].undoStack) < MaxUndo
  /\ Call(i, "clearSelectionStyles", << >>, clearSelectionStyles(rt[i]))

SetFullTextStyles(i, style) ==
  /\ Len(rt[i].undoStack) < MaxUndo
  /\ Call(i, "setFullTextStyles", <<style>>, setFullTextStyles(rt[i], style))

ClearFullTextStyles(i) ==
  /\ Len(rt[i].undoStack) < MaxUndo
  /\ Call(i, "clearFullTextStyles", << >>, clearFullTextStyles(rt[i]))

\* insertText(text, position); position ?? this.selectionStart
InsertText(i, text, position) ==
  /\ Len(rt[i].undoStack) < MaxUndo
  /\ LET pos == IF position = None THEN rt[i].selectionStart ELSE position[1]
         Bounded(r) == Len(r.text) <= MaxLen /\ Call(i, "insertText", <<text, pos>>, r)
     IN Bounded(insertText(rt[i], text, pos))

DeleteSelection(i) ==
  /\ Len(rt[i].undoStack) < MaxUndo
  /\ Call(i, "deleteSelection", << >>, deleteSelection(rt[i]))

\* the pointer.down listener of _bindEvents
PointerDown(i, x, y, shiftKey) ==
  /\ rt[i].isEditing
  /\ Call(i, "pointerDown", <<x, y, shiftKey>>, _handlePointerDown(rt[i], x, y, shiftKey))

PointerMove(i, x, y) ==
  /\ rt[i].isMouseDown
  /\ Call(i, "pointerMove", <<x, y>>, _handlePointerMove(rt[i], x, y))

PointerUp(i) ==
  /\ rt[i].isMouseDown
  /\ Call(i, "pointerUp", << >>, _handlePointerUp(rt[i]))

DoubleTap(i, x, y) == Call(i, "doubleTap", <<x, y>>, OnDoubleTap(rt[i], x, y))

TripleTap(i, x, y) ==
  /\ rt[i].isEditing
  /\ Call(i, "tripleTap", <<x, y>>, _checkTripleTap(rt[i], x, y))

\* the tap listener: a tap is looked at while the instance is editing
Tap(i, x, y) ==
  /\ rt[i].taps.counted
  /\ rt[i].taps.tapCount < MaxTaps \/ rt[i].taps.now - rt[i].taps.lastTapTime >= TapWindow
  /\ Call(i, "tap", <<x, y>>,
          IF rt[i].isEditing THEN _checkTripleTap(rt[i], x, y) ELSE rt[i])

\* time goes by before the next tap
Tick(i) ==
  /\ rt[i].taps.counted
  /\ rt[i].taps.now + TapStep <= MaxClock
  /\ Call(i, "tick", << >>, [rt[i] EXCEPT !.taps.now = @ + TapStep])

\* writes to the @boundsType properties width, padding, textWrap and autoWidth
\* a write to the textAlign property marks the box for a layout
SetTextAlign(i, textAlign) ==
  /\ rt[i].textAlign # textAlign
  /\ Call(i, "textAlign", <<textAlign>>, forceUpdate([rt[i] EXCEPT !.textAlign = textAlign]))

SetGeometry(i, width, padding, textWrap, autoWidth) ==
  /\ <<rt[i].width, rt[i].padding, rt[i].textWrap, rt[i].autoWidth>>
        # <<width, padding, textWrap, autoWidth>>
  /\ Call(i, "geometry", <<width, padding, textWrap, autoWidth>>,
          forceUpdate([rt[i] EXCEPT !.width = width, !.padding = padding,
                                    !.textWrap = textWrap, !.autoWidth = autoWidth]))

\* the host runs the timeout callback of blink loop l
BlinkDelay(i, l) ==
  /\ l \in rt[i].timers.loops
  /\ l.stage = "delay"
  /\ Call(i, "timeout", <<l.id>>, BlinkTimeout(rt[i], l))

\* the host runs the frame callback of blink loop l
BlinkFrame(i, l) ==
  /\ l \in rt[i].timers.loops
  /\ l.stage = "frame"
  /\ Call(i, "frame", <<l.id>>, blink(rt[i], l))

\* writes to the public fields selectionStart and selectionEnd
SetSelection(i, start, end) ==
  Call(i, "selection", <<start, end>>,
       [rt[i] EXCEPT !.selectionStart = start, !.selectionEnd = end])

----------------------------------------------------------------------------
(* SpecEditing: the editing lifecycle of several instances on one canvas   *)

CursorPositions == {None, Some(0), Some(1)}

InitEditing ==
  /\ rt = [i \in Inst |-> NewRichText(<<"a", "b">>, 0, TRUE, "normal")]
  /\ activeEditor = NoEditor
  /\ last = [NoCall EXCEPT !.heard = Listening]

NextEditing ==
  \E i \in Inst :
    \/ Layout(i)
    \/ \E cursorPosition \in CursorPositions : EnterEditing(i, cursorPosition)
    \/ ExitEditing(i)
    \/ KeyEscape(i)
    \/ \E b \in BOOLEAN : SetEditable(i, b)

SpecEditing == InitEditing /\ [][NextEditing]_vars

Editing == {i \in Inst : rt[i].isEditing}

\* C1: at most one instance is editing at any moment, and the EditingManager's
\* active editor is exactly that instance (no active editor when none edits)
C1_SingleEditor ==
  /\ Cardinality(Editing) <= 1
  /\ \A i \in Inst : rt[i].isEditing <=> activeEditor = i
  /\ (Editing = {} <=> activeEditor = NoEditor)

\* an instance entered editing while another one was the active editor
C1_Witness ==
  /\ last.op = "enterEditing"
  /\ last.prev \in Inst \ {last.inst}
  /\ rt[last.inst].isEditing
  /\ activeEditor = last.inst

\* the callbacks a call has run on instance j, in order
FiredOn(fired, j) ==
  LET on == SelectSeq(fired, LAMBDA e : e[1] = j)
  IN [k \in 1..Len(on) |-> on[k][2]]

\* entered comes first and follows exited, exited follows entered
Alternates(heard) ==
  \A k \in 1..(Len(heard) - 1) :
    heard[k + 1] = IF heard[k] = "entered" THEN "exited" ELSE "entered"

\* C14: enterEditing() changes the state only when the instance is idle and
\* editable, and otherwise changes nothing of any instance nor the active
\* editor; exitEditing() and Escape change the state only when the instance is
\* editing; onEditingEntered and onEditingExited run exactly once per
\* idle -> editing and editing -> idle transition, alternating from entered
C14_EditingLifecycle ==
  [][Called(last'.inst) =>
       /\ \A i \in Inst :
            (last'.inst = i /\ last'.op = "enterEditing") =>
              IF rt[i].isEditing \/ ~rt[i].editable
              THEN rt' = rt /\ activeEditor' = activeEditor /\ last'.fired = << >>
              ELSE rt'[i].isEditing /\ activeEditor' = i
       /\ \A i \in Inst :
            (last'.inst = i /\ last'.op \in {"exitEditing", "Escape"}) =>
              IF ~rt[i].isEditing
              THEN rt' = rt /\ activeEditor' = activeEditor /\ last'.fired = << >>
              ELSE ~rt'[i].isEditing
       /\ \A j \in Inst :
            /\ FiredOn(last'.fired, j) =
                 IF ~rt[j].isEditing /\ rt'[j].isEditing THEN <<"entered">>
                 ELSE IF rt[j].isEditing /\ ~rt'[j].isEditing THEN <<"exited">>
                 ELSE << >>
            /\ Alternates(<<last.heard[j]>> \o FiredOn(last'.fired, j))]_vars

\* an instance entered editing while the other one was editing: the other
\* one ran its exit callback and this one its enter callback in the same call
C14_Witness ==
  /\ last.op = "enterEditing"
  /\ Len(last.fired) = 2
  /\ last.fired[1][2] = "exited"
  /\ last.fired[2] = <<last.inst, "entered">>
  /\ last.prev \in Inst \ {last.inst}
  /\ last.heard[last.inst] = "entered"
  /\ last.heard[last.prev] = "exited"

----------------------------------------------------------------------------
(* SpecUndo: one document is edited through the input proxy and the public *)
(* API, styled, undone and redone; the layout pass runs at any moment.     *)

\* the document all the editing goes to
Doc == CHOOSE i \in Inst : \A j \in Inst : i <= j

UndoTexts == {<<"\n", "b">>, <<"a", "b">>}
TypedTexts == {<<"a">>}
Red == <<"fill", "red">>
Big == <<"fontSize", BigFontSize>>
StyleArgs == {<<Red>>}

UndoSelections == {<<0, 0>>, <<0, 1>>, <<1, 2>>, <<0, 2>>}

InitUndo ==
  /\ \E text \in UndoTexts :
       rt = [i \in Inst |-> NewRichText(IF i = Doc THEN text ELSE << >>, 0, TRUE, "normal")]
  /\ activeEditor = NoEditor
  /\ last = [NoCall EXCEPT !.track = NoRun]

\* One operation per frame: the layout pass runs before the next operation.
\* The history stays linear: nothing is edited while a redo is pending.
NextUndo ==
  \/ Layout(Doc)
  \/ /\ ~rt[Doc].boxChanged
     /\ \/ Undo(Doc)
        \/ Redo(Doc)
        \/ /\ rt[Doc].redoStack = << >>
           /\ \/ (~rt[Doc].isEditing /\ EnterEditing(Doc, None))
              \/ \E s \in TypedTexts : TypeText(Doc, s)
              \/ Backspace(Doc)
              \/ \E x \in UndoSelections :
                    x[2] <= Len(rt[Doc].graphemes) /\ SetSelection(Doc, x[1], x[2])
              \/ \E p \in StyleArgs : SetSelectionStyles(Doc, p)
              \/ ClearSelectionStyles(Doc)
              \/ \E p \in StyleArgs : SetFullTextStyles(Doc, p)
              \/ ClearFullTextStyles(Doc)

SpecUndo == InitUndo /\ [][NextUndo]_vars

\* the overrides a style Map holds, by line and column
Overrides(r, styles) == [l \in DOMAIN styles |-> r.heap[styles[l]]]

\* C2: after N snapshot-recording mutations, N undo() calls and then N redo()
\* calls, the text, the selection and the resolved style of every character
\* are those of the state the N mutations ended in
C2_UndoRedoSymmetry ==
  \A i \in Inst :
    (last.inst = i /\ last.track.run >= 1
       /\ last.track.undone = last.track.run /\ last.track.redone = last.track.run)
    => ViewOf(rt[i]) = ViewOf(last.track.final)

\* after undo() right after one recording operation the text, the selection
\* and every character's resolved style are those before the operation
UndoRestores ==
  \A i \in Inst :
    (last.inst = i /\ last.op = "undo" /\ last.track.run >= 1
       /\ last.track.undone = 1 /\ last.track.redone = 0)
    => ViewOf(rt[i]) = ViewOf(last.track.before)

\* the snapshot an operation pushes holds the overrides from before the
\* operation, and an operation other than undo and redo leaves the overrides
\* of the snapshots already on the undo stack as they were
SnapshotsKept ==
  \A i \in Inst :
    (Called(i) /\ last'.op \notin {"undo", "redo"}) =>
      /\ Recorded(last'.op, rt[i], rt'[i]) =>
            Overrides(rt'[i], rt'[i].undoStack[Len(rt'[i].undoStack)].styles)
              = Overrides(rt[i], rt[i].styles)
      /\ \A k \in 1..Min(Len(rt[i].undoStack), Len(rt'[i].undoStack)) :
            Overrides(rt'[i], rt'[i].undoStack[k].styles)
              = Overrides(rt[i], rt[i].undoStack[k].styles)

\* C3: undo() right after a single snapshot-recording operation restores the
\* text, the selection and every character's resolved style, and the overrides
\* stored in a snapshot are not altered by later style edits
C3_UndoRestoresDeepCopy == []UndoRestores /\ [][SnapshotsKept]_vars

----------------------------------------------------------------------------
(* SpecRedo: every snapshot-recording entry point, with and without the    *)
(* input proxy, at any point of the undo / redo history.                   *)

RedoSelections == {<<0, 0>>, <<0, 1>>}

\* snapshots on the undo stack when an operation may still record one
RedoDepth == 1

InitRedo ==
  /\ rt = [i \in Inst |-> NewRichText(IF i = Doc THEN <<"a", "b">> ELSE << >>, 0, TRUE, "normal")]
  /\ activeEditor = NoEditor
  /\ last = NoCall

NextRedo ==
  \/ Layout(Doc)
  \/ /\ ~rt[Doc].boxChanged
     /\ \/ EnterEditing(Doc, None)
        \/ ExitEditing(Doc)
        \/ \E x \in RedoSelections : SetSelection(Doc, x[1], x[2])
        \/ Undo(Doc)
        \/ Redo(Doc)
        \/ /\ Len(rt[Doc].undoStack) < RedoDepth
           /\ \/ \E s \in TypedTexts : TypeText(Doc, s)
              \/ \E s \in TypedTexts : InsertText(Doc, s, None)
              \/ DeleteSelection(Doc)
              \/ \E p \in StyleArgs : SetSelectionStyles(Doc, p)
              \/ ClearSelectionStyles(Doc)
              \/ \E p \in StyleArgs : SetFullTextStyles(Doc, p)
              \/ ClearFullTextStyles(Doc)

SpecRedo == InitRedo /\ [][NextRedo]_vars

\* C4: an operation that records a snapshot leaves the redo stack empty, so
\* that redo() right after it changes nothing; undo() on an empty undo stack
\* and redo() on an empty redo stack change nothing of the instance
C4_RedoCleared ==
  [][\A i \in Inst :
       /\ (Called(i) /\ Recorded(last'.op, rt[i], rt'[i]))
            => (rt'[i].redoStack = << >> /\ redo(rt'[i]) = rt'[i])
       /\ (Called(i) /\ last'.op = "undo" /\ rt[i].undoStack = << >>)
            => rt'[i] = rt[i]
       /\ (Called(i) /\ last'.op = "redo" /\ rt[i].redoStack = << >>)
            => rt'[i] = rt[i]]_vars

\* a snapshot was recorded while a redo was pending
C4_Witness ==
  /\ last.op \in {"input", "insertText", "setSelectionStyles", "setFullTextStyles"}
  /\ last.stacks[2] > 0
  /\ Len(rt[last.inst].undoStack) = last.stacks[1] + 1
  /\ rt[last.inst].redoStack = << >>

\* C18: setSelectionStyles(p) and clearSelectionStyles() called while the
\* selection is a caret change nothing: the text, the overrides, the default
\* style, the selection, the undo stack and the redo stack stay as they were
C18_CaretStyleNoOp ==
  [][\A i \in Inst :
       (Called(i) /\ last'.op \in {"setSelectionStyles", "clearSelectionStyles"}
          /\ rt[i].selectionStart = rt[i].selectionEnd)
         => rt'[i] = rt[i]]_vars

\* a style was set on a caret while a redo was pending
C18_Witness ==
  /\ last.op = "setSelectionStyles"
  /\ rt[last.inst].selectionStart = rt[last.inst].selectionEnd
  /\ last.stacks = <<Len(rt[last.inst].undoStack), Len(rt[last.inst].redoStack)>>
  /\ rt[last.inst].redoStack # << >>
  /\ ~rt[last.inst].boxChanged

----------------------------------------------------------------------------
(* SpecSelect: the selection of one document under the pointer, the        *)
(* keyboard, the input proxy and the public API, in every wrap mode.       *)

\* the documents: a forced break, a word-boundary break, a line break and a
\* surrogate pair
SelectDocs == {<<<<"a", "b", "c">>, "break">>, <<<<"a", " ", "b">>, "normal">>,
               <<<<"a", "\n", "b">>, "none">>, <<<<"H", "L">>, "normal">>}
SelectTyped == {<<"a">>, <<"H", "L">>}

\* two characters of the default font size fit in a line of this width
TwoCharWidth == 2 * DefaultFontSize

\* a padding of half a character on every side
Padding == DefaultFontSize \div 2

\* pointer positions: the first and the second line, before the first
\* character and after the last one
PointerXs == {0, 3 * DefaultFontSize}
PointerYs == {0, _parseLineHeight(DefaultFontSize)}

\* double taps land after the last character of the second line
TapXs == {3 * DefaultFontSize}
TapYs == {_parseLineHeight(DefaultFontSize)}

InitSelect ==
  /\ \E d \in SelectDocs :
       rt = [i \in Inst |-> IF i = Doc THEN NewRichText(d[1], TwoCharWidth, FALSE, d[2])
                                      ELSE NewRichText(<< >>, 0, TRUE, "normal")]
  /\ activeEditor = NoEditor
  /\ last = Unrecorded

\* One operation per frame.  The history stays linear, and a pending redo
\* is taken or dropped before the selection moves again.
MoveSelection ==
  \/ \E x \in PointerXs, y \in PointerYs, shiftKey \in BOOLEAN :
        PointerDown(Doc, x, y, shiftKey)
  \/ \E x \in PointerXs, y \in PointerYs : PointerMove(Doc, x, y)
  \/ PointerUp(Doc)
  \/ \E x \in TapXs, y \in TapYs : DoubleTap(Doc, x, y)
  \/ \E x \in PointerXs, y \in PointerYs : TripleTap(Doc, x, y)
  \/ \E direction \in {-1, 1}, shiftKey \in BOOLEAN : KeyArrow(Doc, direction, shiftKey)
  \/ \E direction \in {-1, 1}, shiftKey \in BOOLEAN : KeyVertical(Doc, direction, shiftKey)
  \/ \E toStart \in BOOLEAN, shiftKey \in BOOLEAN : KeyHomeEnd(Doc, toStart, shiftKey)
  \/ \E direction \in {-1, 1}, shiftKey \in BOOLEAN : KeyWord(Doc, direction, shiftKey)
  \/ SelectAll(Doc)

NextSelect ==
  \/ Layout(Doc)
  \/ /\ ~rt[Doc].boxChanged
     /\ \/ EnterEditing(Doc, None)
        \/ ExitEditing(Doc)
        \/ Undo(Doc)
        \/ Redo(Doc)
        \/ /\ rt[Doc].redoStack = << >>
           /\ \/ MoveSelection
              \/ /\ Len(rt[Doc].undoStack) < RedoDepth
                 /\ \/ \E s \in SelectTyped : TypeText(Doc, s)
                    \/ Backspace(Doc)
                    \/ \E s \in SelectTyped : InsertText(Doc, s, None)
                    \/ DeleteSelection(Doc)

SpecSelect == InitSelect /\ [][NextSelect]_vars

\* C5: after any sequence of pointer, keyboard, selection, input, insertText,
\* deleteSelection, undo / redo and enter / exit editing operations, the
\* selection satisfies 0 <= selectionStart <= selectionEnd <= number of
\* graphemes of the current text
C5_SelectionInRange ==
  \A i \in Inst :
    /\ 0 <= rt[i].selectionStart
    /\ rt[i].selectionStart <= rt[i].selectionEnd
    /\ rt[i].selectionEnd <= Len(graphemeSplit(rt[i].text))

----------------------------------------------------------------------------
(* SpecStyle: one document that carries overrides is edited, styled and    *)
(* laid out again under another wrap geometry.                             *)

StyleTexts == {<<"a", "b">>, <<"a", "b", "c">>, <<"a", " ", "b">>, <<"a", "\n", "b">>}
StyleTyped == {<<"x">>}
StyleParams == {<<Red>>, <<Big>>}

\* data.styleRanges of the constructor
StyleRanges == {<< >>,
                <<[start |-> 1, end |-> 2, style |-> <<Red>>]>>,
                <<[start |-> 0, end |-> 1, style |-> <<Red>>],
                  [start |-> 2, end |-> 3, style |-> <<Big>>]>>}

\* width, padding, textWrap, autoWidth: two characters of the default font
\* size fit in a line of the first two; the last two do not wrap
Geometries == {<<TwoCharWidth, 0, "break", FALSE>>,
               <<TwoCharWidth + 2 * Padding, Padding, "normal", FALSE>>,
               <<TwoCharWidth, 0, "none", FALSE>>,
               <<TwoCharWidth, 0, "normal", TRUE>>}

StyleSelections == {<<0, 0>>, <<0, 1>>, <<1, 2>>, <<2, 3>>, <<1, 1>>, <<0, 3>>}

InitStyle ==
  /\ \E text \in StyleTexts, g \in Geometries, ranges \in StyleRanges :
       rt = [i \in Inst |->
               IF i = Doc
               THEN Canon(_loadFromStyleRanges(
                      [NewRichText(text, g[1], g[4], g[3]) EXCEPT !.padding = g[2]], ranges))
               ELSE NewRichText(<< >>, 0, TRUE, "normal")]
  /\ activeEditor = NoEditor
  /\ last = NoCall

\* One operation per frame; the selection is set before editing is entered.
NextStyle ==
  \/ Layout(Doc)
  \/ /\ ~rt[Doc].boxChanged
     /\ \/ EnterEditing(Doc, None)
        \/ ExitEditing(Doc)
        \/ \E x \in StyleSelections :
              /\ ~rt[Doc].isEditing
              /\ x[2] <= Len(rt[Doc].graphemes)
              /\ SetSelection(Doc, x[1], x[2])
        \/ \E g \in Geometries : SetGeometry(Doc, g[1], g[2], g[3], g[4])
        \/ /\ Len(rt[Doc].undoStack) < RedoDepth
           /\ \/ \E t \in StyleTyped : TypeText(Doc, t)
              \/ Backspace(Doc)
              \/ \E t \in StyleTyped : InsertText(Doc, t, None)
              \/ DeleteSelection(Doc)
              \/ \E q \in StyleParams : SetSelectionStyles(Doc, q)
              \/ \E q \in StyleParams : SetFullTextStyles(Doc, q)

SpecStyle == InitStyle /\ [][NextStyle]_vars

\* grapheme g is drawn: it sits in a cell of _lines (a line break and a space
\* dropped at a word-boundary break do not)
Shown(r, g) == CellsOfGrapheme(r, g) # {}

TextOps == {"input", "backspace", "insertText", "deleteSelection"}

\* the graphemes of the common prefix and of the common suffix keep their
\* overrides, and no more cells are styled than kept and inserted graphemes
Migrated(old, new) ==
  LET Kept(oldG, newG, prefix, suffix) ==
        /\ \A g \in 0..(prefix - 1) : OverrideOf(new, g) = OverrideOf(old, g)
        /\ \A k \in 1..suffix :
              OverrideOf(new, Len(newG) - k) = OverrideOf(old, Len(oldG) - k)
        /\ Cardinality(StyledCells(new, new.styles))
              <= Cardinality(StyledCells(old, old.styles))
                   - Cardinality({g \in prefix..(Len(oldG) - suffix - 1) :
                                    OverrideOf(old, g) # << >>})
                   + (Len(newG) - prefix - suffix)
      Diff(oldG, newG, prefix) ==
        Kept(oldG, newG, prefix, CommonSuffix(oldG, newG, prefix, 0))
      Split(oldG, newG) == Diff(oldG, newG, CommonPrefix(oldG, newG, 0))
  IN Split(graphemeSplit(old.text), graphemeSplit(new.text))

\* C6: when input from the proxy, insertText or deleteSelection changes the
\* text, after the re-layout every grapheme of the common prefix and of the
\* common suffix of the old and the new text keeps exactly its previous
\* override, and the overrides of the removed graphemes are dropped
C6_DiffMigration ==
  [][\A i \in Inst :
       (Called(i) /\ last'.op \in TextOps /\ rt'[i].text # rt[i].text)
         => Migrated(rt[i], Laid(rt'[i]))]_vars

\* the inserted graphemes carry the override of the grapheme before the
\* insertion point, or at offset 0 the override of the first surviving one
Continued(old, new) ==
  LET Inherit(start, removedCount, insertedCount) ==
        /\ (start > 0 /\ Shown(old, start - 1))
             => \A g \in start..(start + insertedCount - 1) :
                   OverrideOf(new, g) = OverrideOf(old, start - 1)
        /\ (start = 0 /\ OverrideOf(old, removedCount) # << >>)
             => \A g \in start..(start + insertedCount - 1) :
                   OverrideOf(new, g) = OverrideOf(old, removedCount)
      Diff(oldG, newG, prefix, suffix) ==
        Inherit(prefix, Len(oldG) - prefix - suffix, Len(newG) - prefix - suffix)
      Split(oldG, newG, prefix) ==
        Diff(oldG, newG, prefix, CommonSuffix(oldG, newG, prefix, 0))
  IN Split(graphemeSplit(old.text), graphemeSplit(new.text),
           CommonPrefix(graphemeSplit(old.text), graphemeSplit(new.text), 0))

\* C7: after a text input that inserts k > 0 graphemes at offset start, each
\* inserted grapheme gets the override of the character before the insertion
\* point, and at start = 0 the override of the first surviving character
\* (old offset removedCount) whenever that character has one
C7_InsertedContinueStyle ==
  [][\A i \in Inst :
       (Called(i) /\ last'.op \in {"input", "insertText"}
          /\ rt[i].hiddenTextarea # None /\ rt'[i].text # rt[i].text)
         => Continued(rt[i], Laid(rt'[i]))]_vars

\* C8: setSelectionStyles(p) gives every character of the selection its old
\* override with the fields of p overwritten and the other fields kept, and
\* leaves the overrides of the characters outside the selection unchanged
C8_SelectionPartialUpdate ==
  [][\A i \in Inst :
       (Called(i) /\ last'.op = "setSelectionStyles")
         => \A g \in 0..(Len(rt[i].graphemes) - 1) :
              Shown(rt[i], g)
                => OverrideOf(rt'[i], g) =
                     IF rt[i].selectionStart <= g /\ g < rt[i].selectionEnd
                     THEN Spread(OverrideOf(rt[i], g), last'.args[1])
                     ELSE OverrideOf(rt[i], g)]_vars

\* every drawn grapheme resolves to p's value for the fields of p and to its
\* previous value for the others, and the element default carries p
FullyStyled(old, new, styleObj) ==
  /\ \A g \in 0..(Len(new.graphemes) - 1) :
        Shown(new, g) =>
          \A k \in StyleFields :
            ResolvedOf(new, g)[k] = IF Has(styleObj, k) THEN Get(styleObj, k)
                                    ELSE ResolvedOf(old, g)[k]
  /\ Has(styleObj, "fill") => new.fill = Get(styleObj, "fill")
  /\ Has(styleObj, "fontSize") => new.fontSize = Get(styleObj, "fontSize")

\* C9: after setFullTextStyles(p) every character resolves to p's value for
\* each field of p, the element default carries p's values, and every
\* character resolves to its previous value for each field not named in p
C9_FullTextKeepsDifferences ==
  [][\A i \in Inst :
       (Called(i) /\ last'.op = "setFullTextStyles")
         => /\ FullyStyled(rt[i], rt'[i], last'.args[1])
            /\ FullyStyled(rt[i], Laid(rt'[i]), last'.args[1])]_vars

\* every grapheme drawn by both layouts carries the same override
SameOverrides(old, new) ==
  \A g \in 0..(Len(old.graphemes) - 1) :
    (Shown(old, g) /\ Shown(new, g)) => OverrideOf(new, g) = OverrideOf(old, g)

\* C10: when only the wrap geometry (width, padding, textWrap, autoWidth)
\* changes, after the re-layout every grapheme of the text carries exactly
\* the override it carried before the change
C10_GeometryKeepsOverrides ==
  [][\A i \in Inst :
       (Called(i) /\ last'.op = "geometry")
         => SameOverrides(rt[i], Laid(rt'[i]))]_vars

----------------------------------------------------------------------------
(* The style range codec                                                   *)

RECURSIVE Compress(_, _, _, _, _, _)
Compress(linearStyles, sortedIndices, i, currentStart, lastIndex, ranges) ==
  LET Range == [start |-> currentStart, end |-> lastIndex + 1,
                style |-> linearStyles[currentStart]]
  IN IF i > Len(sortedIndices) THEN Append(ranges, Range)
     ELSE LET index == sortedIndices[i]
              isAdjacent == index = lastIndex + 1
              \* JSON.stringify writes the fields in insertion order
              isSameStyle == linearStyles[index] = linearStyles[currentStart]
          IN IF isAdjacent /\ isSameStyle
             THEN Compress(linearStyles, sortedIndices, i + 1, currentStart, index, ranges)
             ELSE Compress(linearStyles, sortedIndices, i + 1, index, index,
                           Append(ranges, Range))

_compressToStyleRanges(r) ==
  LET linearStyles == _convertStylesToLinear(r)
      Ranges(sortedIndices) ==
        Compress(linearStyles, sortedIndices, 2, sortedIndices[1], sortedIndices[1], << >>)
  IN IF DOMAIN linearStyles = {} THEN << >>
     ELSE Ranges(SortedSeq(DOMAIN linearStyles))

\* the data properties of the element and, when there are any, styleRanges
toJSON(r) ==
  [text |-> r.text, width |-> r.width, autoWidth |-> r.autoWidth,
   textWrap |-> r.textWrap, padding |-> r.padding, fontSize |-> r.fontSize,
   fill |-> r.fill, editable |-> r.editable,
   styleRanges |-> LET ranges == _compressToStyleRanges(r)
                   IN IF Len(ranges) > 0 THEN Some(ranges) ELSE None]

\* new RichText(data)
FromJSON(data) ==
  LET r == [NewRichText(data.text, data.width, data.autoWidth, data.textWrap)
              EXCEPT !.padding = data.padding, !.fontSize = data.fontSize,
                     !.fill = data.fill, !.editable = data.editable]
  IN IF data.styleRanges # None THEN _loadFromStyleRanges(r, data.styleRanges[1]) ELSE r

\* instance j is replaced by new RichText(data)
Construct(j, data) ==
  /\ ~rt[j].isEditing
  /\ Call(j, "construct", <<data>>, FromJSON(data))

\* instance j is replaced by new RichText(instance i .toJSON())
ImportJSON(j, i) ==
  /\ j # i
  /\ ~rt[j].isEditing
  /\ Call(j, "fromJSON", <<i>>, FromJSON(toJSON(rt[i])))

----------------------------------------------------------------------------
(* SpecCodec: one document is styled through its selection and exported,   *)
(* and the other instance is built again from the exported JSON.           *)

\* the instance that is built from the JSON of the document
Copy == CHOOSE i \in Inst : i # Doc /\ \A j \in Inst \ {Doc} : i <= j

CodecDocs == {<<<<"a", "b", "c">>, "break">>, <<<<"a", "\n", "b">>, "none">>,
              <<<<"a", " ", "b">>, "normal">>}

\* data.styleRanges: none, one range, and two ranges that carry the same
\* fields written in another order
CodecRanges == {<< >>,
                <<[start |-> 1, end |-> 3, style |-> <<Red>>]>>,
                <<[start |-> 0, end |-> 1, style |-> <<Red, Big>>],
                  [start |-> 1, end |-> 2, style |-> <<Big, Red>>]>>}

CodecSelections == {<<0, 1>>, <<0, 2>>, <<2, 3>>}

InitCodec ==
  /\ \E d \in CodecDocs, ranges \in CodecRanges :
       rt = [i \in Inst |->
               IF i = Doc
               THEN Canon(_loadFromStyleRanges(
                      NewRichText(d[1], TwoCharWidth, FALSE, d[2]), ranges))
               ELSE NewRichText(<< >>, 0, TRUE, "normal")]
  /\ activeEditor = NoEditor
  /\ last = NoCall

\* One operation per frame: the document is laid out before it is exported.
NextCodec ==
  \/ \E i \in Inst : Layout(i)
  \/ /\ ~rt[Doc].boxChanged
     /\ \/ EnterEditing(Doc, None)
        \/ ExitEditing(Doc)
        \/ \E x \in PointerXs, y \in PointerYs : TripleTap(Doc, x, y)
        \/ \E x \in CodecSelections : ~rt[Doc].isEditing /\ SetSelection(Doc, x[1], x[2])
        \/ ImportJSON(Copy, Doc)
        \/ /\ Len(rt[Doc].undoStack) < RedoDepth
           /\ \/ \E q \in StyleParams : SetSelectionStyles(Doc, q)
              \/ ClearSelectionStyles(Doc)

SpecCodec == InitCodec /\ [][NextCodec]_vars

\* C11: a new instance built from the text, the layout properties and the
\* styleRanges of toJSON() draws, after its layout, every character with the
\* resolved style the exporting instance draws it with
C11_RangeRoundTrip ==
  [][\A j \in Inst :
       (Called(j) /\ last'.op = "fromJSON")
         => \A g \in 0..(Len(rt[last'.args[1]].graphemes) - 1) :
              Shown(rt[last'.args[1]], g)
                => ResolvedOf(Laid(rt'[j]), g) = ResolvedOf(rt[last'.args[1]], g)]_vars

\* the fields of a style and their values, whatever the order they were set in
FieldValues(style) == {style[k] : k \in 1..Len(style)}

ExportedRanges == [i \in Inst |-> _compressToStyleRanges(rt[i])]

\* C12: the exported ranges are sorted by start, non-empty, pairwise disjoint
\* and maximal: two ranges that touch never carry the same field values
C12_RangesCanonical ==
  \A i \in Inst :
    LET ranges == ExportedRanges[i]
    IN /\ \A k \in 1..Len(ranges) : ranges[k].start < ranges[k].end
       /\ \A k \in 1..(Len(ranges) - 1) :
            /\ ranges[k].start < ranges[k + 1].start
            /\ ranges[k].end <= ranges[k + 1].start
            /\ ranges[k].end = ranges[k + 1].start
                 => FieldValues(ranges[k].style) # FieldValues(ranges[k + 1].style)

----------------------------------------------------------------------------
(* The order of a mutation and the layout it asks for                      *)

PublicMutations == {"setSelectionStyles", "clearSelectionStyles", "setFullTextStyles",
                    "clearFullTextStyles", "input", "backspace", "insertText",
                    "deleteSelection", "undo", "redo"}

\* the graphemes, the lines, the line metrics and the overrides are those the
\* layout pass computes for the text and the styles of r
Recomputed(r) ==
  LET Same(q) == /\ r.graphemes = q.graphemes
                 /\ r.lines = q.lines
                 /\ r.lineMetrics = q.lineMetrics
                 /\ StyledCells(r, r.styles) = StyledCells(q, q.styles)
                 /\ \A x \in StyledCells(r, r.styles) :
                       CellOf(r, r.styles, x[1], x[2]) = CellOf(q, q.styles, x[1], x[2])
  IN Same(__updateBoxBounds(r))

\* C13: when a public mutation returns, the grapheme array, the line array,
\* the line metrics and the overrides are already those of the new text and
\* styles, so that the next operation finds nothing keyed to the previous text
C13_RecomputedOnReturn ==
  [][\A i \in Inst :
       (Called(i) /\ last'.op \in PublicMutations /\ rt'[i] # rt[i])
         => Recomputed(rt'[i])]_vars

----------------------------------------------------------------------------
(* SpecBlink: the caret of one document while editing is entered and left, *)
(* the selection grows and collapses, and the host runs the timeout and    *)
(* frame callbacks at any moment.                                          *)

InitBlink ==
  /\ rt = [i \in Inst |->
             IF i = Doc
             THEN [NewRichText(<<"a", "b">>, 0, TRUE, "normal") EXCEPT !.timers.clocked = TRUE]
             ELSE NewRichText(<< >>, 0, TRUE, "normal")]
  /\ activeEditor = NoEditor
  /\ last = NoCall

NextBlink ==
  \/ Layout(Doc)
  \/ (rt[Doc].timers.started < MaxBlinks /\ EnterEditing(Doc, None))
  \/ ExitEditing(Doc)
  \/ KeyEscape(Doc)
  \/ \E direction \in {-1, 1}, shiftKey \in BOOLEAN : KeyArrow(Doc, direction, shiftKey)
  \/ \E l \in rt[Doc].timers.loops : BlinkDelay(Doc, l)
  \/ \E l \in rt[Doc].timers.loops : BlinkFrame(Doc, l)

SpecBlink == InitBlink /\ [][NextBlink]_vars

\* C15: while an instance is editing and its selection is a caret, a blink
\* loop is pending that goes on toggling the caret, also after a ranged
\* selection has collapsed back to a caret
C15_CaretKeepsBlinking ==
  \A i \in Inst :
    (rt[i].timers.clocked /\ rt[i].isEditing /\ rt[i].selectionStart = rt[i].selectionEnd)
      => rt[i].timers.loops # {}

\* loop id was started by an editing session that has ended
Ended(r, id) == ~r.isEditing \/ id < r.timers.started

\* C16: at most one blink loop of an instance has a frame callback pending,
\* and the frame callback of a loop whose editing session has ended neither
\* schedules itself again nor leaves the cursor opacity below 1
C16_BlinkReleased ==
  [][\A i \in Inst :
       /\ Cardinality({l \in rt'[i].timers.loops : l.stage = "frame"}) <= 1
       /\ (Called(i) /\ last'.op = "frame" /\ Ended(rt[i], last'.args[1]))
            => /\ rt'[i].cursorOpacity = OpacitySteps
               /\ \A l \in rt'[i].timers.loops : l.id # last'.args[1]]_vars

----------------------------------------------------------------------------
(* SpecBounds: style operations and range imports with bounds in and out   *)
(* of the text, in a layout that breaks lines at the line breaks only.     *)

BoundsTexts == {<<"a", "b">>, <<"a", "\n", "b">>}

\* selection bounds and range bounds: negative, inside and past the text
BoundsOffsets == {-1, 0, 1, MaxLen + 1}

BoundsRanges ==
  {<<[start |-> x, end |-> y, style |-> <<Red>>]>> : x \in BoundsOffsets, y \in BoundsOffsets}

BoundsData(text, ranges) ==
  [toJSON(NewRichText(text, 0, TRUE, "normal")) EXCEPT !.styleRanges = Some(ranges)]

InitBounds ==
  /\ \E text \in BoundsTexts :
       rt = [i \in Inst |-> NewRichText(IF i = Doc THEN text ELSE << >>, 0, TRUE, "normal")]
  /\ activeEditor = NoEditor
  /\ last = NoCall

\* One operation per frame; the document is built again from data at any moment.
NextBounds ==
  \/ Layout(Doc)
  \/ /\ ~rt[Doc].boxChanged
     /\ \/ \E x \in BoundsOffsets, y \in BoundsOffsets : SetSelection(Doc, x, y)
        \/ \E text \in BoundsTexts, ranges \in BoundsRanges :
              Construct(Doc, BoundsData(text, ranges))
        \/ /\ Len(rt[Doc].undoStack) < RedoDepth
           /\ \/ \E q \in StyleParams : SetSelectionStyles(Doc, q)
              \/ ClearSelectionStyles(Doc)

SpecBounds == InitBounds /\ [][NextBounds]_vars

\* the cell holds a character of the text: a character of the line, or the
\* line break that ends it
InText(r, x) ==
  /\ x[1] \in 0..(Len(r.lines) - 1)
  /\ x[2] >= 0
  /\ \/ x[2] < Len(r.lines[x[1] + 1])
     \/ x[2] = Len(r.lines[x[1] + 1]) /\ x[1] < Len(r.lines) - 1

\* the cells whose override the call has created, changed or deleted
Touched(old, new) ==
  {x \in StyledCells(old, old.styles) \cup StyledCells(new, new.styles) :
     \/ HasCell(old, old.styles, x[1], x[2]) # HasCell(new, new.styles, x[1], x[2])
     \/ CellOf(old, old.styles, x[1], x[2]) # CellOf(new, new.styles, x[1], x[2])}

\* C17: a style operation or a range import with negative, too large or
\* inverted bounds creates, changes and deletes overrides of characters of
\* the text only: never at a negative column nor past the end of a line
C17_OutOfRangeClamped ==
  [][\A i \in Inst :
       /\ (Called(i) /\ last'.op \in {"setSelectionStyles", "clearSelectionStyles"})
            => \A x \in Touched(rt[i], rt'[i]) : InText(rt'[i], x)
       /\ (Called(i) /\ last'.op = "construct")
            => \A x \in StyledCells(rt'[i], rt'[i].styles) : InText(rt'[i], x)]_vars

----------------------------------------------------------------------------
(* SpecWrap: the line breaker over every short text of letters, spaces and *)
(* line breaks, with characters of two font sizes, in fixed-width boxes.   *)

WrapChars == {"a", " ", "\n"}
WrapTexts == UNION {[1..n -> WrapChars] : n \in 1..MaxLen}

\* one character of the text is of the big font size, or none is
WrapRanges == {<< >>} \cup {<<[start |-> k, end |-> k + 1, style |-> <<Big>>]>> : k \in 0..(MaxLen - 1)}

\* two characters of the default font size fit in a line and three do not; a
\* character of the big font size fits
WrapWidth == 2 * DefaultFontSize + Padding

\* width, padding, textWrap, autoWidth
WrapGeometries == {<<WrapWidth, 0, "normal", FALSE>>,
                   <<WrapWidth, 0, "break", FALSE>>,
                   <<WrapWidth + 2 * Padding, Padding, "normal", FALSE>>,
                   <<WrapWidth + DefaultFontSize, 0, "break", FALSE>>}

InitWrap ==
  /\ \E text \in WrapTexts, g \in WrapGeometries, ranges \in WrapRanges :
       rt = [i \in Inst |->
               IF i = Doc
               THEN Canon(_loadFromStyleRanges(
                      [NewRichText(text, g[1], g[4], g[3]) EXCEPT !.padding = g[2]], ranges))
               ELSE NewRichText(<< >>, 0, TRUE, "normal")]
  /\ activeEditor = NoEditor
  /\ last = NoCall

NextWrap ==
  \/ Layout(Doc)
  \/ /\ ~rt[Doc].boxChanged
     /\ \E g \in WrapGeometries : SetGeometry(Doc, g[1], g[2], g[3], g[4])

SpecWrap == InitWrap /\ [][NextWrap]_vars

\* the measured width of the characters of a line
ContentWidth(line) ==
  IF Len(line.chars) = 0 THEN 0
  ELSE line.chars[Len(line.chars)].x + line.chars[Len(line.chars)].width

\* the width left for the text between the left and the right padding
UsableWidth(r) == Abs(r.width) - _parsePadding(r.padding).left - _parsePadding(r.padding).right

\* a laid out box of a fixed positive width that wraps, wider than the
\* threshold under which it does not, and wider than each of its characters
FixedWrap(r) ==
  /\ ~r.boxChanged
  /\ ~r.autoWidth /\ r.width > 0 /\ r.textWrap \in {"normal", "break"}
  /\ UsableWidth(r) > MinWrapWidth
  /\ \A l \in 1..Len(r.lineMetrics) : \A c \in 1..Len(r.lineMetrics[l].chars) :
        r.lineMetrics[l].chars[c].width < UsableWidth(r)

\* C19: in a fixed-width box that wraps, with every single character narrower
\* than the usable width, the measured content width of every line is at most
\* the usable width
C19_LinesFitWidth ==
  \A i \in Inst :
    FixedWrap(rt[i]) =>
      \A l \in 1..Len(rt[i].lineMetrics) :
        ContentWidth(rt[i].lineMetrics[l]) <= UsableWidth(rt[i])

----------------------------------------------------------------------------
(* Justification: boxes of a fixed width whose textAlign is written and    *)
(* which are laid out again.                                               *)

TextAligns == {"left", "right", "justify", "justify-letter", "both"}

\* width, padding, textWrap, autoWidth: the leftover width of a line is a
\* multiple of Padding, which line lengths up to three characters divide
AlignGeometries == {<<WrapWidth, 0, "break", FALSE>>,
                    <<WrapWidth + DefaultFontSize, 0, "normal", FALSE>>,
                    <<WrapWidth + DefaultFontSize + 2 * Padding, Padding, "break", FALSE>>}

InitAlign ==
  /\ \E text \in WrapTexts, g \in AlignGeometries, textAlign \in TextAligns :
       rt = [i \in Inst |->
               IF i = Doc
               THEN Canon([NewRichText(text, g[1], g[4], g[3])
                             EXCEPT !.padding = g[2], !.textAlign = textAlign])
               ELSE NewRichText(<< >>, 0, TRUE, "normal")]
  /\ activeEditor = NoEditor
  /\ last = NoCall

NextAlign ==
  \/ Layout(Doc)
  \/ /\ ~rt[Doc].boxChanged
     /\ \/ \E textAlign \in TextAligns : SetTextAlign(Doc, textAlign)
        \/ \E g \in AlignGeometries : SetGeometry(Doc, g[1], g[2], g[3], g[4])

SpecAlign == InitAlign /\ [][NextAlign]_vars

\* where character c of a line stands when nothing is moved: after the
\* widths and the letter spacings of the characters before it
RECURSIVE NaturalX(_, _, _)
NaturalX(r, line, c) ==
  IF c = 1 THEN 0
  ELSE NaturalX(r, line, c - 1) + line.chars[c - 1].width + r.letterSpacing

\* the width the characters of the line leave free
Leftover(r, line) ==
  UsableWidth(r) - (NaturalX(r, line, Len(line.chars)) + line.chars[Len(line.chars)].width
                      + r.letterSpacing)

\* line l (from 1) ends its paragraph: its last character ends the text or
\* stands before a newline
ParagraphFinal(r, l) ==
  LET k == r.lines[l][Len(r.lines[l])]
  IN k + 1 >= Len(r.graphemes) \/ r.graphemes[k + 2] = "\n"

\* the leftover is spread in equal gaps between the characters of the line
Justified(r, line) ==
  \A c \in 1..Len(line.chars) :
     (line.chars[c].x - NaturalX(r, line, c)) * (Len(line.chars) - 1)
        = (c - 1) * Leftover(r, line)

Unjustified(r, line) ==
  \A c \in 1..Len(line.chars) : line.chars[c].x = NaturalX(r, line, c)

\* the lines of a laid out box of a fixed width that have more than one
\* character and a positive leftover
Justifiable(r) ==
  IF r.boxChanged \/ r.autoWidth \/ r.width <= 0 THEN {}
  ELSE {l \in 1..Len(r.lineMetrics) :
          Len(r.lineMetrics[l].chars) > 1 /\ Leftover(r, r.lineMetrics[l]) > 0}

\* C20: under 'justify' and 'justify-letter' a line of more than one character
\* and positive leftover width has the leftover spread in equal gaps between
\* its characters when it is not the final line of its paragraph, and is left
\* unmoved when it is (before a newline or at the end of the text); under
\* 'both' the final lines are spread too
C20_JustifyBoundary ==
  \A i \in Inst : \A l \in Justifiable(rt[i]) :
     /\ rt[i].textAlign \in {"justify", "justify-letter"} =>
          IF ParagraphFinal(rt[i], l) THEN Unjustified(rt[i], rt[i].lineMetrics[l])
          ELSE Justified(rt[i], rt[i].lineMetrics[l])
     /\ rt[i].textAlign = "both" => Justified(rt[i], rt[i].lineMetrics[l])

----------------------------------------------------------------------------
(* Drawing: where the renderer puts the characters of a laid out box.      *)

AscentNum == 17      \* ascent 0.85 = 17 / 20 of the font size
AscentDen == 20

\* vertical positions are in units of 1 / YScale of a pixel, which holds the
\* half of the leading and the ascent exactly
YScale == 2 * AscentDen

\* _drawText with the baseline of each character computed from its own font
\* size instead of the greatest of its line
DrawTextOwnBaseline(r) ==
  LET padding == _parsePadding(r.padding)
      drawn(line) ==
        [c \in 1..Len(line.chars) |->
           LET own == line.chars[c].fontSize
               leading == line.height - own
           IN [finalX |-> line.chars[c].x + padding.left,
               finalY |-> YScale * line.y + AscentDen * leading + 2 * AscentNum * own
                            + YScale * padding.top]]
  IN [l \in 1..Len(r.lineMetrics) |-> drawn(r.lineMetrics[l])]

_drawText(r) ==
  LET padding == _parsePadding(r.padding)
      drawn(line) ==
        LET maxFontSize == IF Len(line.chars) > 0
                           THEN MaxOf({line.chars[c].fontSize : c \in 1..Len(line.chars)})
                           ELSE r.fontSize
            leading == line.height - maxFontSize
            baseline == YScale * line.y + AscentDen * leading + 2 * AscentNum * maxFontSize
        IN [c \in 1..Len(line.chars) |->
              [finalX |-> line.chars[c].x + padding.left,
               finalY |-> baseline + YScale * padding.top]]
  IN [l \in 1..Len(r.lineMetrics) |-> drawn(r.lineMetrics[l])]

\* a frame is drawn from the metrics of the last layout
Draw(i) ==
  /\ ~rt[i].boxChanged
  /\ last.op # "draw"
  /\ Call(i, "draw", _drawText(rt[i]), rt[i])

\* an offset of the text is mapped to its line and column and back, as the
\* selection and the caret code do
Locate(i, offset) ==
  /\ ~rt[i].boxChanged
  /\ LET loc == _linearToLocation(rt[i], offset)
     IN Call(i, "locate",
             <<offset, loc, _locationToLinear(rt[i], loc.lineIndex, loc.charIndex)>>, rt[i])

\* the wrapping geometries and one that does not wrap
MetricsGeometries == WrapGeometries \cup {<<WrapWidth, 0, "none", FALSE>>}

NextMetrics ==
  \/ Layout(Doc)
  \/ /\ ~rt[Doc].boxChanged
     /\ \E g \in MetricsGeometries : SetGeometry(Doc, g[1], g[2], g[3], g[4])
  \/ Draw(Doc)
  \/ \E offset \in 0..Len(rt[Doc].graphemes) : Locate(Doc, offset)

SpecMetrics == InitWrap /\ [][NextMetrics]_vars

\* the font sizes of the resolved styles of the characters of line l (from 0)
FontSizesOf(r, l) ==
  {_getCharStyle(r, l, c).fontSize : c \in 0..(Len(r.lines[l + 1]) - 1)}

\* the greatest font size of line l, the font size of the box for an empty line
MaxFontSizeOf(r, l) ==
  IF FontSizesOf(r, l) = {} THEN r.fontSize
  ELSE CHOOSE m \in FontSizesOf(r, l) : \A n \in FontSizesOf(r, l) : n <= m

C22_OffsetRoundTrip ==
  \A i \in Inst :
    (last.inst = i /\ last.op = "locate") => last.args[3] = last.args[1]

\* the offset of the end of a text that was wrapped into two lines without a
\* newline is mapped to the second line and back
C22_Witness ==
  /\ last.op = "locate"
  /\ last.args[1] = Len(rt[Doc].graphemes)
  /\ last.args[2].lineIndex = 1
  /\ Len(rt[Doc].lines) = 2
  /\ \A g \in 1..Len(rt[Doc].graphemes) : rt[Doc].graphemes[g] = "a"

\* C23: in every wrap mode an offset below the number of graphemes whose
\* grapheme is not a newline is mapped to a line and a column that exist in
\* the line array, and the character there is the grapheme at the offset
C23_OffsetIsIndex ==
  \A i \in Inst :
    (/\ last.inst = i /\ last.op = "locate"
     /\ last.args[1] < Len(rt[i].graphemes)
     /\ rt[i].graphemes[last.args[1] + 1] # NL)
    => LET l == last.args[2].lineIndex
           c == last.args[2].charIndex
       IN /\ l >= 0 /\ l < Len(rt[i].lines)
          /\ c >= 0 /\ c < Len(rt[i].lines[l + 1])
          /\ rt[i].graphemes[rt[i].lines[l + 1][c + 1] + 1] = rt[i].graphemes[last.args[1] + 1]

----------------------------------------------------------------------------
(* The keys of the override store                                          *)

\* the cell (line, column) holds a character of the line array
CellExists(r, cell) ==
  /\ cell[1] >= 0 /\ cell[1] < Len(r.lines)
  /\ cell[2] >= 0 /\ cell[2] < Len(r.lines[cell[1] + 1])

\* C24: in a laid out box every key (line, column) of the override store is
\* the place of a character of the line array
C24_KeysReferenceCharacters ==
  \A i \in Inst :
    ~rt[i].boxChanged =>
      \A cell \in StyledCells(rt[i], rt[i].styles) : CellExists(rt[i], cell)

----------------------------------------------------------------------------
(* SpecImport: documents built from data whose style ranges overlap.       *)

ImportTexts == {<<"a", "b">>, <<"a", "b", "c">>}

\* two ranges that name different fields or the same field, over offsets
\* inside the text and past its end
ImportRanges ==
  {<<[start |-> x1, end |-> y1, style |-> <<Red>>],
     [start |-> x2, end |-> y2, style |-> s2]>> :
     x1 \in 0..1, y1 \in 2..MaxLen, x2 \in 0..2, y2 \in 1..(MaxLen + 1), s2 \in {<<Big>>, <<Big, Red>>}}

InitImport ==
  /\ \E text \in ImportTexts :
       rt = [i \in Inst |-> NewRichText(IF i = Doc THEN text ELSE << >>, 0, TRUE, "normal")]
  /\ activeEditor = NoEditor
  /\ last = NoCall

NextImport ==
  \/ Layout(Doc)
  \/ \E text \in ImportTexts, ranges \in ImportRanges :
        Construct(Doc, BoundsData(text, ranges))

SpecImport == InitImport /\ [][NextImport]_vars

\* the fields the ranges from the k-th on give to offset g, merged in the
\* order of the ranges onto the fields acc
RECURSIVE MergedAt(_, _, _, _)
MergedAt(ranges, g, k, acc) ==
  IF k > Len(ranges) THEN acc
  ELSE MergedAt(ranges, g, k + 1,
                IF ranges[k].start <= g /\ g < ranges[k].end
                THEN Spread(acc, ranges[k].style) ELSE acc)

SameFields(a, b) ==
  \A k \in StyleFields : Has(a, k) = Has(b, k) /\ (Has(a, k) => Get(a, k) = Get(b, k))

\* C25: after an import of style ranges the override of every character holds
\* the fields of the ranges that cover it, a later range replacing only the
\* fields it names, and no override is stored for an offset at or past the
\* length of the text
C25_ImportMergesFields ==
  \A i \in Inst :
    (last.inst = i /\ last.op = "construct") =>
      LET ranges == last.args[1].styleRanges[1]
          loc(g) == _linearToLocation(rt[i], g)
      IN /\ \A g \in 0..(Len(rt[i].graphemes) - 1) :
              SameFields(CellOf(rt[i], rt[i].styles, loc(g).lineIndex, loc(g).charIndex),
                         MergedAt(ranges, g, 1, << >>))
         /\ \A cell \in StyledCells(rt[i], rt[i].styles) :
              \E g \in 0..(Len(rt[i].graphemes) - 1) :
                 cell = <<loc(g).lineIndex, loc(g).charIndex>>

----------------------------------------------------------------------------
(* The line breaker and the metrics engine                                 *)

\* the font size the line breaker measures grapheme g (0-based) with in the
\* layout of r: linearCharIndex is the index of the grapheme
WrapFontSize(r, g) ==
  FontSizeOr(BeforeSplit(r), _getStyleAtLinearIndex(BeforeSplit(r), g))

\* C26: in a layout that wraps, the line breaker measures every character
\* with the font size of the resolved style the metrics engine measures it
\* with after the layout
C26_WrapUsesResolvedStyle ==
  [][\A i \in Inst :
       (rt[i].boxChanged /\ ~rt'[i].boxChanged /\ FixedWrap(rt'[i])) =>
         \A g \in 0..(Len(rt'[i].graphemes) - 1) :
            CellsOfGrapheme(rt'[i], g) # {} =>
              WrapFontSize(rt[i], g) = ResolvedOf(rt'[i], g).fontSize]_vars

\* the graphemes (0-based indices) of the lines, in the order of the lines
RECURSIVE Flatten(_, _)
Flatten(lines, l) ==
  IF l > Len(lines) THEN << >> ELSE lines[l] \o Flatten(lines, l + 1)

\* grapheme g is left out between the end of a line and the start of the next
DroppedAtBreak(r, g) ==
  \E l \in 1..(Len(r.lines) - 1) :
     /\ Len(r.lines[l]) = 0 \/ r.lines[l][Len(r.lines[l])] < g
     /\ Len(r.lines[l + 1]) = 0 \/ g < r.lines[l + 1][1]

EmptyLines(lines) == {l \in 1..Len(lines) : Len(lines[l]) = 0}

\* C27: in a box that wraps, the lines hold the graphemes of the text in
\* their order, none twice; in mode 'break' they hold every grapheme but the
\* newlines; in mode 'normal' the only other graphemes they leave out are
\* word boundaries at which a line was broken, and a line is empty only for
\* an empty paragraph
C27_WrapPreservesContent ==
  \A i \in Inst :
    FixedWrap(rt[i]) =>
      LET r == rt[i]
          flat == Flatten(r.lines, 1)
          held == {flat[k] : k \in 1..Len(flat)}
          chars == {g \in 0..(Len(r.graphemes) - 1) : r.graphemes[g + 1] # NL}
      IN /\ \A k \in 1..(Len(flat) - 1) : flat[k] < flat[k + 1]
         /\ held \subseteq chars
         /\ r.textWrap = "break" => held = chars
         /\ r.textWrap = "normal" =>
              /\ \A g \in chars \ held :
                    IsWordBoundary(r.graphemes[g + 1]) /\ DroppedAtBreak(r, g)
              /\ Cardinality(EmptyLines(r.lines))
                   = Cardinality(EmptyLines(_splitLinesByNewline(r)))

----------------------------------------------------------------------------
(* SpecIndent: wrapped boxes with a paragraph indent.                      *)

\* half a character and a whole character of the default font size
ParaIndents == {Padding, DefaultFontSize}

IndentGeometries == {<<WrapWidth, 0, "break", FALSE>>,
                     <<WrapWidth, 0, "normal", FALSE>>,
                     <<WrapWidth + DefaultFontSize, 0, "break", FALSE>>}

\* a write to the paraSpacing property marks the box for a layout
SetParaSpacing(i, paraSpacing) ==
  /\ rt[i].paraSpacing # paraSpacing
  /\ Call(i, "paraSpacing", <<paraSpacing>>, forceUpdate([rt[i] EXCEPT !.paraSpacing = paraSpacing]))

\* a write to the paraIndent property marks the box for a layout
SetParaIndent(i, paraIndent) ==
  /\ rt[i].paraIndent # paraIndent
  /\ Call(i, "paraIndent", <<paraIndent>>, forceUpdate([rt[i] EXCEPT !.paraIndent = paraIndent]))

InitIndent ==
  /\ \E text \in WrapTexts, g \in IndentGeometries, paraIndent \in ParaIndents :
       rt = [i \in Inst |->
               IF i = Doc
               THEN Canon([NewRichText(text, g[1], g[4], g[3])
                             EXCEPT !.padding = g[2], !.paraIndent = paraIndent])
               ELSE NewRichText(<< >>, 0, TRUE, "normal")]
  /\ activeEditor = NoEditor
  /\ last = NoCall

NextIndent ==
  \/ Layout(Doc)
  \/ /\ ~rt[Doc].boxChanged
     /\ \/ \E paraIndent \in ParaIndents : SetParaIndent(Doc, paraIndent)
        \/ \E g \in IndentGeometries : SetGeometry(Doc, g[1], g[2], g[3], g[4])

SpecIndent == InitIndent /\ [][NextIndent]_vars

\* line l (from 1) starts a paragraph: it is the first line of the text or
\* the grapheme before its first one is a newline
ParagraphFirst(r, l) ==
  l = 1 \/ (r.lines[l][1] > 0 /\ r.graphemes[r.lines[l][1]] = NL)

\* the offset the metrics engine starts line l at
StartOf(r, l) == r.lineMetrics[l].chars[1].x

\* the next grapheme of the text continues line l on line l + 1
ContinuedBy(r, l) ==
  /\ l < Len(r.lines) /\ Len(r.lines[l + 1]) > 0
  /\ r.lines[l + 1][1] = r.lines[l][Len(r.lines[l])] + 1

\* C28: in a box that wraps, a line that starts a paragraph starts at
\* paraIndent and a continuation line at 0, and the line breaker gives every
\* line the usable width less the offset the line starts at: the line fits
\* behind its offset, and in mode 'break' the first character of the line
\* that continues it would not have fitted
C28_ParagraphIndent ==
  \A i \in Inst :
    FixedWrap(rt[i]) =>
      \A l \in 1..Len(rt[i].lines) :
        Len(rt[i].lines[l]) > 0 =>
          LET r == rt[i]
              start == IF ParagraphFirst(r, l) THEN r.paraIndent ELSE 0
              width == ContentWidth(r.lineMetrics[l]) - StartOf(r, l)
          IN /\ StartOf(r, l) = start
             /\ Len(r.lines[l]) > 1 => start + width <= UsableWidth(r)
             /\ (r.textWrap = "break" /\ ContinuedBy(r, l)) =>
                   start + width + r.lineMetrics[l + 1].chars[1].width > UsableWidth(r)

----------------------------------------------------------------------------
(* SpecMove: the caret and the selection are moved with the keyboard and   *)
(* with shift-clicks in a document that is being edited.                   *)

MoveTexts == {<<"a", " ", "b">>, <<"a", "\n", "b">>, <<"a", "b", " ">>}
MoveSelections == {<<0, 0>>, <<1, 1>>, <<0, 2>>, <<1, 3>>}

\* the word at an offset of the text is selected, as a double tap there does
SelectWordAt(i, index) ==
  /\ rt[i].isEditing
  /\ Call(i, "selectWord", <<index>>, _selectWord(rt[i], index))

InitMove ==
  /\ \E text \in MoveTexts :
       rt = [i \in Inst |-> NewRichText(IF i = Doc THEN text ELSE << >>, 0, TRUE, "normal")]
  /\ activeEditor = NoEditor
  /\ last = NoCall

NextMove ==
  \/ Layout(Doc)
  \/ /\ ~rt[Doc].boxChanged
     /\ \/ EnterEditing(Doc, None)
        \/ ExitEditing(Doc)
        \/ \E x \in MoveSelections : ~rt[Doc].isEditing /\ SetSelection(Doc, x[1], x[2])
        \/ \E direction \in {-1, 1}, shiftKey \in BOOLEAN : KeyArrow(Doc, direction, shiftKey)
        \/ \E direction \in {-1, 1}, shiftKey \in BOOLEAN : KeyVertical(Doc, direction, shiftKey)
        \/ \E toStart \in BOOLEAN, shiftKey \in BOOLEAN : KeyHomeEnd(Doc, toStart, shiftKey)
        \/ \E direction \in {-1, 1}, shiftKey \in BOOLEAN : KeyWord(Doc, direction, shiftKey)
        \/ \E x \in PointerXs, y \in PointerYs : PointerDown(Doc, x, y, TRUE)
        \/ \E index \in 0..Len(rt[Doc].graphemes) : SelectWordAt(Doc, index)

SpecMove == InitMove /\ [][NextMove]_vars

KeyMoves == {"moveCursor", "moveVertical", "moveToLineEnd", "moveByWord"}

\* the call moved the caret or the selection: a key move (a vertical move
\* that stays on its line returns before it does) or a shift-click
MovedTo(i) ==
  /\ Called(i)
  /\ \/ last'.op \in KeyMoves \ {"moveVertical"}
     \/ last'.op = "moveVertical" /\ rt'[i] # rt[i]
     \/ last'.op = "pointerDown" /\ last'.args[3]

Extends(i) == IF last'.op = "pointerDown" THEN last'.args[3] ELSE last'.args[2]

C30_SelectWord ==
  \A i \in Inst :
    (last.inst = i /\ last.op = "selectWord") =>
      LET r == rt[i]
          s == r.selectionStart
          e == r.selectionEnd
      IN /\ s <= last.args[1] /\ last.args[1] <= e
         /\ \A k \in s..(e - 1) : ~IsWordBoundary(r.graphemes[k + 1])
         /\ s = 0 \/ IsWordBoundary(r.graphemes[s])
         /\ e = Len(r.graphemes) \/ IsWordBoundary(r.graphemes[e + 1])
         /\ r.selectionAnchor = None

\* the word of two characters is selected from the offset between them
C30_Witness ==
  /\ last.op = "selectWord" /\ last.args = <<1>>
  /\ rt[Doc].selectionStart = 0 /\ rt[Doc].selectionEnd = 2
  /\ rt[Doc].text = <<"a", "b", " ">>

-----------------------------------------------------------------------------
(* Triple taps                                                             *)

TapDocs == {<<<<"a", "\n", "b">>, "none">>, <<<<"a", "b", "c">>, "break">>}

InitTap ==
  /\ \E d \in TapDocs :
       rt = [i \in Inst |->
               IF i = Doc
               THEN [NewRichText(d[1], TwoCharWidth, FALSE, d[2])
                       EXCEPT !.taps = [Uncounted EXCEPT !.counted = TRUE, !.now = TapWindow]]
               ELSE NewRichText(<< >>, 0, TRUE, "normal")]
  /\ activeEditor = NoEditor
  /\ last = NoCall

NextTap ==
  \/ Layout(Doc)
  \/ /\ ~rt[Doc].boxChanged
     /\ \/ EnterEditing(Doc, None)
        \/ ExitEditing(Doc)
        \/ \E direction \in {-1, 1} : KeyArrow(Doc, direction, FALSE)
        \/ \E x \in PointerXs, y \in PointerYs : Tap(Doc, x, y)
        \/ Tick(Doc)

SpecTap == InitTap /\ [][NextTap]_vars

\* the number of taps at the end of the taps counted so far of which each
\* came less than TapWindow after the one before it
RECURSIVE RunOf(_)
RunOf(history) ==
  IF Len(history) <= 1 THEN Len(history)
  ELSE IF history[Len(history)] - history[Len(history) - 1] < TapWindow
       THEN 1 + RunOf(SubSeq(history, 1, Len(history) - 1))
       ELSE 1

\* the line (from 1) a tap at height y lands on: the one whose band holds y,
\* the last one below the text
LineAt(r, y) ==
  LET adjustedY == y - _parsePadding(r.padding).top
      bands == {l \in 1..Len(r.lineMetrics) :
                  /\ adjustedY >= r.lineMetrics[l].y
                  /\ adjustedY < r.lineMetrics[l].y + r.lineMetrics[l].height}
  IN IF bands # {} THEN CHOOSE l \in bands : TRUE ELSE Len(r.lineMetrics)

SameSelection(i) ==
  /\ rt'[i].selectionStart = rt[i].selectionStart
  /\ rt'[i].selectionEnd = rt[i].selectionEnd

\* the selection after the tap is line l: from the offset of its first
\* grapheme to the offset behind its last one
LineSelected(i, l) ==
  LET line == rt'[i].lines[l]
  IN IF Len(line) = 0 THEN rt'[i].selectionStart = rt'[i].selectionEnd
     ELSE /\ rt'[i].selectionStart = line[1]
          /\ rt'[i].selectionEnd = line[Len(line)] + 1

Tapped(i) == Called(i) /\ last'.op = "tap"

\* the tap is the third of a run of taps made while editing
ThirdTap(i) == rt[i].isEditing /\ RunOf(rt'[i].taps.history) = 3

\* C31: a tap while editing selects the line it lands on, from the line's
\* first offset to its last, exactly when it is the third of a run of taps
\* of which each came less than 500 ms after the one before; every other tap
\* while editing, and every tap while not editing, leaves the selection alone
C31_TripleTapSelectsLine ==
  [][\A i \in Inst :
       Tapped(i) =>
         IF ThirdTap(i) THEN LineSelected(i, LineAt(rt[i], last'.args[2]))
         ELSE SameSelection(i)]_vars

\* the counting alone: the selection is set by a tap exactly when it is the
\* third of its run (the range the third tap selects is left open)
TapCounting ==
  [][\A i \in Inst :
       Tapped(i) =>
         /\ rt[i].isEditing => rt'[i].taps.tapCount = RunOf(rt'[i].taps.history)
         /\ ~ThirdTap(i) => SameSelection(i)
         /\ ThirdTap(i) => rt'[i].selectionAnchor = None]_vars

\* the lines of the text are not soft-wrapped
Unwrapped(r) == r.textWrap = "none"

TripleTapUnwrapped ==
  [][\A i \in Inst :
       (Tapped(i) /\ Unwrapped(rt[i]) /\ ThirdTap(i)) =>
          LineSelected(i, LineAt(rt[i], last'.args[2]))]_vars

\* a third tap has selected a line of a text that is not wrapped
TripleTapReached ==
  \E i \in Inst :
    /\ last.inst = i /\ last.op = "tap" /\ Unwrapped(rt[i])
    /\ rt[i].taps.tapCount = 3 /\ rt[i].selectionEnd > rt[i].selectionStart

-----------------------------------------------------------------------------
(* The input proxy                                                         *)

\* C32: while an instance is editing and no composition is in progress, the
\* value of its input proxy is the text of the document
C32_ProxyHoldsText ==
  \A i \in Inst :
    (rt[i].isEditing /\ ~rt[i].inComposition /\ rt[i].hiddenTextarea # None)
      => rt[i].hiddenTextarea[1].value = rt[i].text

-----------------------------------------------------------------------------
(* The selection anchor                                                    *)

\* C33: an anchor that is remembered is an end of the selection
C33_AnchorNeverStale ==
  \A i \in Inst :
    rt[i].selectionAnchor # None =>
      rt[i].selectionAnchor[1] \in {rt[i].selectionStart, rt[i].selectionEnd}

\* the end of the selection of r that a Shift-move keeps: the anchor, or the
\* start of the selection when none is remembered
AnchorEnd(r) ==
  IF r.selectionAnchor = None THEN r.selectionStart ELSE r.selectionAnchor[1]

\* the end of the selection that is not the anchor
MovingEnd(r) ==
  IF AnchorEnd(r) = r.selectionStart THEN r.selectionEnd ELSE r.selectionStart

\* C34: Shift+ArrowLeft / Shift+ArrowRight on a selection with the anchor a
\* at one of its ends and the moving end f leave the range between a and
\* f - 1 or f + 1, clamped into the text
C34_ShiftArrowMovesFocus ==
  [][\A i \in Inst :
       (/\ Called(i) /\ last'.op = "moveCursor" /\ last'.args[2]
        /\ AnchorEnd(rt[i]) \in {rt[i].selectionStart, rt[i].selectionEnd})
       => LET a == AnchorEnd(rt[i])
              f == Min(Max(MovingEnd(rt[i]) + last'.args[1], 0), Len(rt[i].graphemes))
          IN /\ rt'[i].selectionStart = Min(a, f)
             /\ rt'[i].selectionEnd = Max(a, f)]_vars

\* C35: a word move without Shift from a caret c in the text ends at a caret
\* in [0, length]; to the left it ends below c when c > 0, to the right it
\* ends above c when c < length
C35_WordMoveProgress ==
  [][\A i \in Inst :
       (/\ Called(i) /\ last'.op = "moveByWord" /\ ~last'.args[2]
        /\ rt[i].selectionStart = rt[i].selectionEnd
        /\ rt[i].selectionStart \in 0..Len(rt[i].graphemes))
       => LET c == rt[i].selectionStart
              p == rt'[i].selectionStart
          IN /\ rt'[i].selectionEnd = p
             /\ p \in 0..Len(rt[i].graphemes)
             /\ (last'.args[1] = -1 /\ c > 0) => p < c
             /\ (last'.args[1] = 1 /\ c < Len(rt[i].graphemes)) => p > c]_vars

-----------------------------------------------------------------------------
(* Composition                                                             *)

ImeTexts == {<<"a">>, <<"a", "b">>}
ImeTyped == {<<"a">>, <<"b">>}

InitIme ==
  /\ \E text \in ImeTexts :
       rt = [i \in Inst |-> NewRichText(IF i = Doc THEN text ELSE << >>, 0, TRUE, "normal")]
  /\ activeEditor = NoEditor
  /\ last = NoCall

NextIme ==
  \/ Layout(Doc)
  \/ /\ ~rt[Doc].boxChanged
     /\ \/ EnterEditing(Doc, None)
        \/ ExitEditing(Doc)
        \/ CompositionStart(Doc)
        \/ CompositionEnd(Doc)
        \/ \E s \in ImeTyped : TypeText(Doc, s)
        \/ Backspace(Doc)

SpecIme == InitIme /\ [][NextIme]_vars

InputEvents == {"input", "backspace"}

\* C36: an input event during a composition changes neither the text nor
\* the undo stack; compositionend makes the composed text of the proxy the
\* text of the document and records one snapshot when the text has changed;
\* an instance that was not editing and has entered editing is not in a
\* composition, so that the next input event that changes the proxy text
\* changes the text
C36_CompositionGating ==
  [][\A i \in Inst :
       Called(i) =>
         /\ (last'.op \in InputEvents /\ rt[i].inComposition) =>
               /\ rt'[i].text = rt[i].text
               /\ rt'[i].undoStack = rt[i].undoStack
         /\ last'.op = "compositionEnd" =>
               /\ rt'[i].text = rt[i].hiddenTextarea[1].value
               /\ Len(rt'[i].undoStack) = Len(rt[i].undoStack)
                     + (IF rt'[i].text # rt[i].text THEN 1 ELSE 0)
         /\ (last'.op = "enterEditing" /\ ~rt[i].isEditing /\ rt'[i].isEditing) =>
               ~rt'[i].inComposition]_vars

\* the gating within a session: the first two parts of C36
CompositionWithinSession ==
  [][\A i \in Inst :
       Called(i) =>
         /\ (last'.op \in InputEvents /\ rt[i].inComposition) =>
               /\ rt'[i].text = rt[i].text
               /\ rt'[i].undoStack = rt[i].undoStack
         /\ last'.op = "compositionEnd" =>
               /\ rt'[i].text = rt[i].hiddenTextarea[1].value
               /\ Len(rt'[i].undoStack) = Len(rt[i].undoStack)
                     + (IF rt'[i].text # rt[i].text THEN 1 ELSE 0)]_vars

\* a composition has committed a text that differs from the one before it
CompositionCommitted ==
  \E i \in Inst :
    /\ last.inst = i /\ last.op = "compositionEnd"
    /\ Len(rt[i].undoStack) > 0
    /\ rt[i].undoStack[Len(rt[i].undoStack)].text # rt[i].text

-----------------------------------------------------------------------------
(* Callbacks that enter editing                                            *)

\* the callback registered on the canvas: its owner, its kind and the
\* instance whose enterEditing() it calls
Callbacks == Inst \X {"entered", "exited"} \X Inst

InitReenter ==
  /\ \E c \in Callbacks :
       rt = [i \in Inst |->
               [NewRichText(<<"a", "b">>, 0, TRUE, "normal") EXCEPT
                  !.onEditingEntered = IF c[1] = i /\ c[2] = "entered" THEN Some(c[3]) ELSE None,
                  !.onEditingExited = IF c[1] = i /\ c[2] = "exited" THEN Some(c[3]) ELSE None]]
  /\ activeEditor = NoEditor
  /\ last = NoCall

NextReenter ==
  \E i \in Inst :
    \/ Layout(i)
    \/ EnterEditingReentrant(i)
    \/ ExitEditingReentrant(i)
    \/ \E b \in BOOLEAN : SetEditable(i, b)
    \/ \E direction \in {-1, 1} : KeyArrow(i, direction, FALSE)

SpecReenter == InitReenter /\ [][NextReenter]_vars

\* C37: with a callback that calls enterEditing(), at most one instance is
\* editing once the calls have returned, and it is the active editor
C37_SingleEditorReentrant ==
  /\ Cardinality({i \in Inst : rt[i].isEditing}) <= 1
  /\ \A i \in Inst : rt[i].isEditing => activeEditor = i

\* the callbacks that run after the instance has entered editing
EnteredCallbackOnly ==
  (\A i \in Inst : rt[i].onEditingExited = None) => C37_SingleEditorReentrant

-----------------------------------------------------------------------------
(* insertText and deleteSelection                                          *)

InsertTexts == {<<"a", "b">>, <<"H", "L">>}
InsertTyped == {<<"a">>}
InsertSelections == {<<0, 0>>, <<1, 1>>, <<0, 1>>, <<1, 2>>}

InitInsert ==
  /\ \E text \in InsertTexts :
       rt = [i \in Inst |-> NewRichText(IF i = Doc THEN text ELSE << >>, 0, TRUE, "normal")]
  /\ activeEditor = NoEditor
  /\ last = NoCall

NextInsert ==
  \/ Layout(Doc)
  \/ /\ ~rt[Doc].boxChanged
     /\ \/ EnterEditing(Doc, None)
        \/ ExitEditing(Doc)
        \/ \E x \in InsertSelections :
              /\ ~rt[Doc].isEditing /\ x[2] <= Len(rt[Doc].graphemes)
              /\ SetSelection(Doc, x[1], x[2])
        \/ \E direction \in {-1, 1}, shiftKey \in BOOLEAN : KeyArrow(Doc, direction, shiftKey)
        \/ \E t \in InsertTyped, pos \in 0..Len(rt[Doc].graphemes) : InsertText(Doc, t, Some(pos))
        \/ DeleteSelection(Doc)

SpecInsert == InitInsert /\ [][NextInsert]_vars

\* the selection of r is a range of its graphemes
SelectionInText(r) ==
  /\ 0 <= r.selectionStart /\ r.selectionStart <= r.selectionEnd
  /\ r.selectionEnd <= Len(r.graphemes)

\* C38: with a caret in the text, insertText(t, p) for p in [0, length] puts
\* the graphemes of t at grapheme offset p, leaves every other grapheme in
\* place and ends with the caret at p + length of t; deleteSelection()
\* removes the selected graphemes and no other
C38_InsertReplacesSelection ==
  [][\A i \in Inst :
       (Called(i) /\ SelectionInText(rt[i])) =>
         LET g == rt[i].graphemes
         IN /\ (/\ last'.op = "insertText"
                /\ rt[i].selectionStart = rt[i].selectionEnd
                /\ last'.args[2] \in 0..Len(g)) =>
                 LET t == graphemeSplit(last'.args[1])
                     pos == last'.args[2]
                 IN /\ graphemeSplit(rt'[i].text) = SliceTo(g, pos) \o t \o SliceFrom(g, pos)
                    /\ rt'[i].selectionStart = pos + Len(t)
                    /\ rt'[i].selectionEnd = pos + Len(t)
            /\ last'.op = "deleteSelection" =>
                 graphemeSplit(rt'[i].text) =
                   SliceTo(g, rt[i].selectionStart) \o SliceFrom(g, rt[i].selectionEnd)]_vars

\* insertText at the caret of a text whose graphemes are single code units
InsertAtCaret ==
  [][\A i \in Inst :
       (/\ Called(i) /\ SelectionInText(rt[i]) /\ last'.op = "insertText"
        /\ rt[i].selectionStart = rt[i].selectionEnd
        /\ last'.args[2] = rt[i].selectionStart
        /\ Len(rt[i].text) = Len(rt[i].graphemes)) =>
          LET g == rt[i].graphemes
              t == graphemeSplit(last'.args[1])
              pos == last'.args[2]
          IN /\ graphemeSplit(rt'[i].text) = SliceTo(g, pos) \o t \o SliceFrom(g, pos)
             /\ rt'[i].selectionStart = pos + Len(t)
             /\ rt'[i].selectionEnd = pos + Len(t)]_vars

-----------------------------------------------------------------------------
(* The height of the box                                                   *)

SpacingTexts == {<<"a">>, <<"\n", "a">>, <<"a", "\n", "\n">>, <<"a", "\n", "a">>}
ParaSpacings == {0, DefaultFontSize \div 2}
SpacingGeometries == {<<0, 0, "normal", TRUE>>, <<TwoCharWidth, Padding, "break", FALSE>>}

InitSpacing ==
  /\ \E text \in SpacingTexts, paraSpacing \in ParaSpacings :
       rt = [i \in Inst |->
               IF i = Doc
               THEN [NewRichText(text, 0, TRUE, "normal") EXCEPT !.paraSpacing = paraSpacing]
               ELSE NewRichText(<< >>, 0, TRUE, "normal")]
  /\ activeEditor = NoEditor
  /\ last = NoCall

NextSpacing ==
  \/ Layout(Doc)
  \/ /\ ~rt[Doc].boxChanged
     /\ \/ \E paraSpacing \in ParaSpacings : SetParaSpacing(Doc, paraSpacing)
        \/ \E g \in SpacingGeometries : SetGeometry(Doc, g[1], g[2], g[3], g[4])
        \/ \E p \in {<<Big>>} : SetFullTextStyles(Doc, p)
        \/ ClearFullTextStyles(Doc)

SpecSpacing == InitSpacing /\ [][NextSpacing]_vars

\* the height __updateBoxBounds gives the box of a laid-out instance
\* (autoHeight is on): the computed height
BoxHeight(r) == _getTextBounds(r).height

\* C39: the box of a laid-out instance is at least as high as the bottom
\* edge of its last line plus the top and the bottom padding
C39_BoundsContainLines ==
  \A i \in Inst :
    (~rt[i].boxChanged /\ Len(rt[i].lineMetrics) > 0) =>
      LET r == rt[i]
          lastLine == r.lineMetrics[Len(r.lineMetrics)]
          padding == _parsePadding(r.padding)
      IN BoxHeight(r) >= lastLine.y + lastLine.height + padding.top + padding.bottom

\* without paragraph spacing, and in a text without an empty line before
\* the last one, the box contains every line
BoundsWithoutSpacing ==
  \A i \in Inst :
    (/\ ~rt[i].boxChanged /\ Len(rt[i].lineMetrics) > 0
     /\ \/ rt[i].paraSpacing = 0
        \/ \A l \in 1..(Len(rt[i].lines) - 1) : Len(rt[i].lines[l]) > 0) =>
      LET r == rt[i]
          lastLine == r.lineMetrics[Len(r.lineMetrics)]
          padding == _parsePadding(r.padding)
      IN BoxHeight(r) = lastLine.y + lastLine.height + padding.top + padding.bottom

-----------------------------------------------------------------------------
(* The inner editor of the host                                            *)

InitHost ==
  /\ \E text \in {<<"a", "b">>, <<"a", "\n", "b">>}, hotkey \in BOOLEAN, locked \in BOOLEAN :
       rt = [i \in Inst |->
               IF i = Doc
               THEN [NewRichText(text, 0, TRUE, "normal") EXCEPT
                       !.editor.hotkey = hotkey, !.locked = locked]
               ELSE NewRichText(<<"a">>, 0, TRUE, "normal")]
  /\ activeEditor = NoEditor
  /\ last = NoCall

NextHost ==
  \/ \E i \in Inst : Layout(i)
  \/ /\ \A i \in Inst : ~rt[i].boxChanged
     /\ \/ OpenInnerEditor(Doc)
        \/ CloseInnerEditor(Doc)
        \/ \E x \in PointerXs, y \in PointerYs, clickedOnText \in BOOLEAN :
              AppPointerDown(Doc, x, y, clickedOnText)
        \/ KeyEscape(Doc)
        \/ \E i \in Inst : EnterEditing(i, None)
        \/ \E i \in Inst : ExitEditing(i)

SpecHost == InitHost /\ [][NextHost]_vars

\* nothing of onLoad is left on the host of instance r
Unloaded(r) == r.editor.savedEditorConfig = None /\ r.editor.eventIds = {}

\* the inner editor of instance i is closed by the step
Closes(i) ==
  /\ Called(i)
  /\ \/ last'.op = "closeInnerEditor"
     \/ last'.op = "appPointerDown" /\ ~last'.args[3]

\* the step gives the host's hotkey setting and the locked flag of instance
\* i the values they had before onLoad
Restores(i) ==
  rt[i].editor.savedEditorConfig # None =>
    /\ rt'[i].editor.hotkey = rt[i].editor.savedEditorConfig[1].hotkey
    /\ rt'[i].locked = rt[i].editor.savedEditorConfig[1].locked

\* C40: an edit target that is not editing has nothing of onLoad left on its
\* host: the saved settings have been restored and the app listeners are
\* removed; and closing the inner editor restores the hotkey setting and the
\* locked flag to their values from before onLoad
C40_HostRestored ==
  /\ [](\A i \in Inst : ~rt[i].isEditing => Unloaded(rt[i]))
  /\ [][\A i \in Inst : Closes(i) => Restores(i)]_vars

\* closing the inner editor restores the settings and removes the listeners
CloseRestores ==
  [][\A i \in Inst : Closes(i) => (Restores(i) /\ Unloaded(rt'[i]) /\ ~rt'[i].isEditing)]_vars

====
